---- MODULE Spec2Model ----
(***************************************************************************)
(* A model of the Upscale-Engine backend:                                  *)
(*   - ModelManager (backend/model_manager.py): lazy loading of engines    *)
(*     under the "single active model" policy, called from the request     *)
(*     threads of the Flask server (backend/server.py);                    *)
(*   - ComfyUIExecutor.resolve_setget_nodes (backend/comfyui_executor.py): *)
(*     removal of SetNode / GetNode / Any Switch (rgthree) indirection     *)
(*     from a workflow graph;                                              *)
(*   - ComfyUIExecutor.convert_to_api_format: conversion of an editor-form *)
(*     workflow to the compiled (API) form;                                *)
(*   - ComfyUIExecutor.execute: submission of a job to ComfyUI and its     *)
(*     monitoring over the WebSocket channel or by polling /history;       *)
(*   - progress_store, preview_store and the /preview stream of            *)
(*     backend/server.py.                                                  *)
(***************************************************************************)
EXTENDS Integers, Sequences, FiniteSets, TLC

VARIABLES
    loaded_models,      \* ModelManager.loaded_models: insertion-ordered dict, a sequence of [key, engine]
    active_model_key,   \* ModelManager.active_model_key: a key or None
    pc,                 \* per request thread: the statement it is about to execute
    op,                 \* per thread: the manager method it called
    model_key,          \* per thread: get_model's argument
    keys,               \* per thread: unload_all's local "keys" (the snapshot still to delete)
    engine,             \* per thread: get_model's local "engine"
    ret,                \* per thread: where the running unload_all returns to
    err,                \* per thread: the exception "e" caught at line 125
    result,             \* per thread: what the finished call returned (an engine) or raised
    pre,                \* per thread: the manager state when the call began
    events,             \* per thread: the teardowns and constructions of the running call
    nextHandle,         \* identity of the next engine object constructed
    calls,              \* number of calls begun
    workflow,           \* the workflow handed to resolve_setget_nodes
    resolved,           \* what resolve_setget_nodes returned
    wphase,             \* "build" while the workflow is being authored, "done" after resolution,
                        \* "compiled" after conversion
    api,                \* what convert_to_api_format returned for the resolved workflow
    jpc,                \* the statement of execute / wait_for_result the job is at
    jpass,              \* 1: the first workflow, 2: the chained tiled-upscale pass
    hires,              \* use_hires_fix and hires_fix_mode == "normal"
    prompt_id,          \* what queue_prompt returned
    submits,            \* number of queue_prompt calls of the pass
    waits,              \* number of wait_for_result calls of the pass
    clock,              \* time.time() - start_time, in ticks
    ws,                 \* the streaming channel: "none", "open", "lost" or "closed"
    received,           \* number of messages the channel delivered to the job
    reported,           \* the values handed to execute's progress_callback, in order
    history,            \* ComfyUI's /history store: prompt id -> entry
    seen,               \* what monitoring came across in the pass
    jret,               \* what wait_for_result returned
    msg,                \* the message ws.recv() returned last
    jprogress,          \* wait_for_result's / _poll_for_result's local "progress": the
                        \* percentage last handed to their progress_callback (-1: none yet)
    current_step,       \* wait_for_result's local current_step
    previewed,          \* the step last handed to preview_callback (-1: none yet)
    progress_store,     \* server.progress_store: request id -> progress entry
    preview_store,      \* server.preview_store: request id -> queue of previews
    endpoint,           \* the endpoint the request was posted to
    hpc,                \* the position of the request handler
    spc,                \* the position of stream_preview's generator
    timeout_count,      \* the generator's local timeout_count
    sse,                \* the events the generator yielded, in order
    sent,               \* number of send_preview calls of the request
    queues,             \* the Queue objects created so far, each with its content
    squeue,             \* the generator's local "queue": a Queue object (0: not bound)
    ppc,                \* the position of the running send_preview call
    hqueue,             \* the Queue object send_preview found in preview_store (0: none)
    node_info_cache,    \* executor._node_info_cache: node type -> description
    answered,           \* node type -> the description its first answered request got
    last_call,          \* the get_node_info call of the step, if it made one
    mappings,           \* the lists of WIDGET_MAPPINGS the running conversion appended to
    cnode,              \* the position in the node list the conversion loop is at
    compiles            \* number of convert_to_api_format calls so far

mgrVars == <<loaded_models, active_model_key, pc, op, model_key, keys, engine,
             ret, err, result, pre, events, nextHandle, calls>>
resVars == <<workflow, resolved, wphase>>
monVars == <<jprogress, current_step, previewed>>
exeVars == <<jpc, jpass, hires, prompt_id, submits, waits, clock, ws, received, reported,
             history, seen, jret, msg, jprogress, current_step, previewed>>
prvVars == <<progress_store, preview_store, endpoint, hpc, spc, timeout_count, sse, sent,
             queues, squeue, ppc, hqueue>>
infVars == <<node_info_cache, answered, last_call, mappings, cnode, compiles>>
vars == <<loaded_models, active_model_key, pc, op, model_key, keys, engine,
          ret, err, result, pre, events, nextHandle, calls, workflow, resolved, wphase,
          api, exeVars, prvVars, infVars>>

None == "None"

\* No message was received yet; no get_node_info call was made in the step.
NoMsg == [type |-> None, node |-> None, prompt_id |-> None]
NoCall == [node_type |-> None, kind |-> None, sent |-> FALSE, returned |-> <<>>]

\* The parts of the backend that take no part in a specification stay as they
\* are before their first request.
ExeIdle ==
    /\ jpc = "off"
    /\ jpass = 1
    /\ hires = FALSE
    /\ prompt_id = None
    /\ submits = 0
    /\ waits = 0
    /\ clock = 0
    /\ ws = "none"
    /\ received = 0
    /\ reported = <<>>
    /\ history = <<>>
    /\ seen = {}
    /\ jret = None
    /\ msg = NoMsg
    /\ jprogress = -1
    /\ current_step = 0
    /\ previewed = -1

PrvIdle ==
    /\ progress_store = <<>>
    /\ preview_store = <<>>
    /\ endpoint = None
    /\ hpc = "off"
    /\ spc = "off"
    /\ timeout_count = 0
    /\ sse = <<>>
    /\ sent = 0
    /\ queues = <<>>
    /\ squeue = 0
    /\ ppc = "none"
    /\ hqueue = 0

InfIdle ==
    /\ node_info_cache = <<>>
    /\ answered = <<>>
    /\ last_call = NoCall
    /\ mappings = <<>>
    /\ cnode = 0
    /\ compiles = 0

(***************************************************************************)
(* Bounds.                                                                 *)
(***************************************************************************)
MaxCalls == 4
MaxJobs == 3
MaxLinks == 3
MaxMsgs == 2
Deadline == 2
MaxPreviews == 2
max_timeouts == 3

(***************************************************************************)
(* ModelManager                                                            *)
(***************************************************************************)
Threads == {"t1", "t2"}

\* The keys get_model's if/elif chain knows (lines 80-114).
KnownKeys == {"esrgan", "swinir", "supresdiffgan", "sdxl", "qwen", "gfpgan", "inpaint"}

\* The keys the calls of the model are drawn from: two engines that need their
\* model file, the engine that does not, and a key the chain does not know.
RequestKeys == {"sdxl", "esrgan", "inpaint", "unknown"}

\* dict operations on the insertion-ordered loaded_models
Has(lm, k) == \E i \in 1..Len(lm) : lm[i].key = k

Lookup(lm, k) == lm[CHOOSE i \in 1..Len(lm) : lm[i].key = k].engine

Put(lm, k, e) ==
    IF Has(lm, k)
    THEN [i \in 1..Len(lm) |-> IF lm[i].key = k THEN [key |-> k, engine |-> e] ELSE lm[i]]
    ELSE Append(lm, [key |-> k, engine |-> e])

Remove(lm, k) == SelectSeq(lm, LAMBDA r : r.key # k)

KeyList(lm) == [i \in 1..Len(lm) |-> lm[i].key]

\* An engine object, as opposed to None or a raised exception.
IsEngine(x) == x \notin {None, "FileNotFoundError", "EngineError", "ValueError", "KeyError"}

IsFailure(x) == x \in {"FileNotFoundError", "EngineError", "ValueError", "KeyError"}

\* What loading key k can do (lines 79-117): the downloader finds the model file
\* or not, the engine constructor returns or raises.
LoadOutcomes(k) ==
    IF k \notin KnownKeys THEN {"ValueError"}
    ELSE IF k = "inpaint" THEN {"ok", "EngineError"}
    ELSE {"ok", "FileNotFoundError", "EngineError"}

\* The engine constructor is entered for these outcomes.
Constructs(o) == o \in {"ok", "EngineError"}

MgrInit ==
    /\ loaded_models = <<>>
    /\ active_model_key = None
    /\ pc = [t \in Threads |-> "idle"]
    /\ op = [t \in Threads |-> None]
    /\ model_key = [t \in Threads |-> None]
    /\ keys = [t \in Threads |-> <<>>]
    /\ engine = [t \in Threads |-> None]
    /\ ret = [t \in Threads |-> None]
    /\ err = [t \in Threads |-> None]
    /\ result = [t \in Threads |-> None]
    /\ pre = [t \in Threads |-> [loaded |-> <<>>, active |-> None]]
    /\ events = [t \in Threads |-> <<>>]
    /\ nextHandle = 1
    /\ calls = 0

\* A caller enters a manager method.
Enter(t, method, k, first, limit) ==
    /\ pc[t] = "idle"
    /\ calls < limit
    /\ calls' = calls + 1
    /\ pc' = [pc EXCEPT ![t] = first]
    /\ op' = [op EXCEPT ![t] = method]
    /\ model_key' = [model_key EXCEPT ![t] = k]
    /\ keys' = [keys EXCEPT ![t] = <<>>]
    /\ engine' = [engine EXCEPT ![t] = None]
    /\ ret' = [ret EXCEPT ![t] = IF method = "unload_all" THEN "return" ELSE None]
    /\ err' = [err EXCEPT ![t] = None]
    /\ result' = [result EXCEPT ![t] = None]
    /\ pre' = [pre EXCEPT ![t] = [loaded |-> loaded_models, active |-> active_model_key]]
    /\ events' = [events EXCEPT ![t] = IF method = "unload_all" THEN <<<<"unload_all">>>> ELSE <<>>]
    /\ UNCHANGED <<loaded_models, active_model_key, nextHandle, workflow, resolved, wphase,
                   api, exeVars, prvVars, infVars>>

\* A call made while no other call is in progress.
NoCallRunning == \A u \in Threads : pc[u] = "idle"

CallGetModel(t, k) == NoCallRunning /\ Enter(t, "get_model", k, "gm_check", MaxCalls)

CallUnloadAll(t) == NoCallRunning /\ Enter(t, "unload_all", None, "ua_check", MaxCalls)

\* A request handler of the threaded server calls manager.get_model
\* (server.py lines 286, 353, 392, 451, 542, 649), whatever the other threads do.
StartJob(t, k) == Enter(t, "get_model", k, "gm_check", MaxJobs)

MutResidentMiss(t) == Has(loaded_models, model_key[t]) /\ active_model_key # model_key[t]

\* line 65: if model_key in self.loaded_models
IsResident(t) == Has(loaded_models, model_key[t])

GmCheck(t) ==
    /\ pc[t] = "gm_check"
    /\ pc' = [pc EXCEPT ![t] = IF IsResident(t) THEN "gm_hit_set" ELSE "gm_switch"]
    /\ UNCHANGED <<loaded_models, active_model_key, op, model_key, keys, engine, ret,
                   err, result, pre, events, nextHandle, calls, workflow, resolved, wphase,
                   api, exeVars, prvVars, infVars>>

\* line 66: self.active_model_key = model_key
GmHitSet(t) ==
    /\ pc[t] = "gm_hit_set"
    /\ active_model_key' = model_key[t]
    /\ pc' = [pc EXCEPT ![t] = "gm_hit_ret"]
    /\ UNCHANGED <<loaded_models, op, model_key, keys, engine, ret, err, result, pre,
                   events, nextHandle, calls, workflow, resolved, wphase,
                   api, exeVars, prvVars, infVars>>

\* line 67: return self.loaded_models[model_key] (KeyError when the entry is gone)
GmHitRet(t) ==
    /\ pc[t] = "gm_hit_ret"
    /\ result' = [result EXCEPT ![t] =
                    IF Has(loaded_models, model_key[t])
                    THEN Lookup(loaded_models, model_key[t]) ELSE "KeyError"]
    /\ pc' = [pc EXCEPT ![t] = "done"]
    /\ UNCHANGED <<loaded_models, active_model_key, op, model_key, keys, engine, ret,
                   err, pre, events, nextHandle, calls, workflow, resolved, wphase,
                   api, exeVars, prvVars, infVars>>

MutSwitchWrong(t) == active_model_key # None /\ active_model_key = model_key[t]

\* line 71: if self.active_model_key is not None and self.active_model_key != model_key
SwitchNeeded(t) == active_model_key # None /\ active_model_key # model_key[t]

\* lines 71-73: unload the other model before loading
GmSwitch(t) ==
    /\ pc[t] = "gm_switch"
    /\ IF SwitchNeeded(t)
       THEN /\ pc' = [pc EXCEPT ![t] = "ua_check"]
            /\ ret' = [ret EXCEPT ![t] = "gm_load"]
            /\ events' = [events EXCEPT ![t] = Append(@, <<"unload_all">>)]
       ELSE /\ pc' = [pc EXCEPT ![t] = "gm_load"]
            /\ UNCHANGED <<ret, events>>
    /\ UNCHANGED <<loaded_models, active_model_key, op, model_key, keys, engine, err,
                   result, pre, nextHandle, calls, workflow, resolved, wphase,
                   api, exeVars, prvVars, infVars>>

\* lines 79-117: look the model file up and construct the engine
GmLoad(t) ==
    /\ pc[t] = "gm_load"
    /\ \E o \in LoadOutcomes(model_key[t]) :
         /\ events' = [events EXCEPT ![t] =
                         IF Constructs(o) THEN Append(@, <<"construct", model_key[t]>>) ELSE @]
         /\ IF o = "ok"
            THEN /\ engine' = [engine EXCEPT ![t] = ToString(nextHandle)]
                 /\ nextHandle' = nextHandle + 1
                 /\ pc' = [pc EXCEPT ![t] = "gm_store"]
                 /\ UNCHANGED err
            ELSE /\ err' = [err EXCEPT ![t] = o]
                 /\ pc' = [pc EXCEPT ![t] = "gm_except"]
                 /\ UNCHANGED <<engine, nextHandle>>
    /\ UNCHANGED <<loaded_models, active_model_key, op, model_key, keys, ret, result,
                   pre, calls, workflow, resolved, wphase,
                   api, exeVars, prvVars, infVars>>

\* line 120: self.loaded_models[model_key] = engine
GmStore(t) ==
    /\ pc[t] = "gm_store"
    /\ loaded_models' = Put(loaded_models, model_key[t], engine[t])
    /\ pc' = [pc EXCEPT ![t] = "gm_setactive"]
    /\ UNCHANGED <<active_model_key, op, model_key, keys, engine, ret, err, result, pre,
                   events, nextHandle, calls, workflow, resolved, wphase,
                   api, exeVars, prvVars, infVars>>

\* The engine returned without being made the active one.
MutActiveNotSet(t) ==
    /\ pc[t] = "gm_setactive"
    /\ result' = [result EXCEPT ![t] = engine[t]]
    /\ pc' = [pc EXCEPT ![t] = "done"]
    /\ UNCHANGED <<loaded_models, active_model_key, op, model_key, keys, engine, ret, err,
                   pre, events, nextHandle, calls, workflow, resolved, wphase,
                   api, exeVars, prvVars, infVars>>

\* lines 121-123: self.active_model_key = model_key; return engine
GmSetActive(t) ==
    /\ pc[t] = "gm_setactive"
    /\ active_model_key' = model_key[t]
    /\ result' = [result EXCEPT ![t] = engine[t]]
    /\ pc' = [pc EXCEPT ![t] = "done"]
    /\ UNCHANGED <<loaded_models, op, model_key, keys, engine, ret, err, pre, events,
                   nextHandle, calls, workflow, resolved, wphase,
                   api, exeVars, prvVars, infVars>>

\* lines 125-128: except Exception as e: self.unload_all()
GmExcept(t) ==
    /\ pc[t] = "gm_except"
    /\ pc' = [pc EXCEPT ![t] = "ua_check"]
    /\ ret' = [ret EXCEPT ![t] = "gm_raise"]
    /\ events' = [events EXCEPT ![t] = Append(@, <<"unload_all">>)]
    /\ UNCHANGED <<loaded_models, active_model_key, op, model_key, keys, engine, err,
                   result, pre, nextHandle, calls, workflow, resolved, wphase,
                   api, exeVars, prvVars, infVars>>

MutSwallow(e) == None

\* line 129: raise e
Reraise(e) == e

GmRaise(t) ==
    /\ pc[t] = "gm_raise"
    /\ result' = [result EXCEPT ![t] = Reraise(err[t])]
    /\ pc' = [pc EXCEPT ![t] = "done"]
    /\ UNCHANGED <<loaded_models, active_model_key, op, model_key, keys, engine, ret,
                   err, pre, events, nextHandle, calls, workflow, resolved, wphase,
                   api, exeVars, prvVars, infVars>>

\* The statement after unload_all returns: back in get_model, or in the caller.
AfterUnload(t) == IF ret[t] = "return" THEN "done" ELSE ret[t]

MutUaCheckReturns(t) ==
    /\ pc[t] = "ua_check"
    /\ pc' = [pc EXCEPT ![t] = AfterUnload(t)]
    /\ UNCHANGED <<loaded_models, active_model_key, op, model_key, keys, engine, ret, err,
                   result, pre, events, nextHandle, calls, workflow, resolved, wphase,
                   api, exeVars, prvVars, infVars>>

\* lines 36-40: if not self.loaded_models: return; keys = list(self.loaded_models.keys())
UaCheck(t) ==
    /\ pc[t] = "ua_check"
    /\ IF loaded_models = <<>>
       THEN /\ pc' = [pc EXCEPT ![t] = AfterUnload(t)]
            /\ UNCHANGED keys
       ELSE /\ pc' = [pc EXCEPT ![t] = "ua_del"]
            /\ keys' = [keys EXCEPT ![t] = KeyList(loaded_models)]
    /\ UNCHANGED <<loaded_models, active_model_key, op, model_key, engine, ret, err,
                   result, pre, events, nextHandle, calls, workflow, resolved, wphase,
                   api, exeVars, prvVars, infVars>>

\* lines 41-44: for key in keys: del self.loaded_models[key] (KeyError when it is gone)
UaDel(t) ==
    /\ pc[t] = "ua_del"
    /\ keys[t] # <<>>
    /\ LET key == Head(keys[t]) IN
         IF Has(loaded_models, key)
         THEN /\ loaded_models' = Remove(loaded_models, key)
              /\ events' = [events EXCEPT ![t] = Append(@, <<"teardown", key>>)]
              /\ keys' = [keys EXCEPT ![t] = Tail(@)]
              /\ pc' = [pc EXCEPT ![t] = IF Tail(keys[t]) = <<>> THEN "ua_clear" ELSE "ua_del"]
              /\ UNCHANGED result
         ELSE /\ result' = [result EXCEPT ![t] = "KeyError"]
              /\ pc' = [pc EXCEPT ![t] = "done"]
              /\ UNCHANGED <<loaded_models, events, keys>>
    /\ UNCHANGED <<active_model_key, op, model_key, engine, ret, err, pre, nextHandle, calls, workflow, resolved, wphase,
                   api, exeVars, prvVars, infVars>>

\* line 46: self.loaded_models = {}
UaClear(t) ==
    /\ pc[t] = "ua_clear"
    /\ loaded_models' = <<>>
    /\ pc' = [pc EXCEPT ![t] = "ua_active"]
    /\ UNCHANGED <<active_model_key, op, model_key, keys, engine, ret, err, result, pre,
                   events, nextHandle, calls, workflow, resolved, wphase,
                   api, exeVars, prvVars, infVars>>

MutUaActiveKept(t) ==
    /\ pc[t] = "ua_active"
    /\ pc' = [pc EXCEPT ![t] = AfterUnload(t)]
    /\ UNCHANGED <<loaded_models, active_model_key, op, model_key, keys, engine, ret, err,
                   result, pre, events, nextHandle, calls, workflow, resolved, wphase,
                   api, exeVars, prvVars, infVars>>

\* lines 47-57: self.active_model_key = None; gc.collect(); empty the CUDA cache
UaActive(t) ==
    /\ pc[t] = "ua_active"
    /\ active_model_key' = None
    /\ pc' = [pc EXCEPT ![t] = AfterUnload(t)]
    /\ UNCHANGED <<loaded_models, op, model_key, keys, engine, ret, err, result, pre,
                   events, nextHandle, calls, workflow, resolved, wphase,
                   api, exeVars, prvVars, infVars>>

\* The call is over: a request handler that got an engine goes on to use it
\* (server.py lines 305-310, 372-382), any other caller is done.
Return(t) ==
    /\ pc[t] = "done"
    /\ pc' = [pc EXCEPT ![t] =
                IF op[t] = "get_model" /\ IsEngine(result[t]) THEN "using" ELSE "idle"]
    /\ UNCHANGED <<loaded_models, active_model_key, op, model_key, keys, engine, ret,
                   err, result, pre, events, nextHandle, calls, workflow, resolved, wphase,
                   api, exeVars, prvVars, infVars>>

\* The handler's engine call returns and the request ends.
EndUse(t) ==
    /\ pc[t] = "using"
    /\ pc' = [pc EXCEPT ![t] = "idle"]
    /\ UNCHANGED <<loaded_models, active_model_key, op, model_key, keys, engine, ret,
                   err, result, pre, events, nextHandle, calls, workflow, resolved, wphase,
                   api, exeVars, prvVars, infVars>>

\* One statement of a running call.
Step(t) ==
    \/ GmCheck(t)
    \/ GmHitSet(t)
    \/ GmHitRet(t)
    \/ GmSwitch(t)
    \/ GmLoad(t)
    \/ GmStore(t)
    \/ GmSetActive(t)
    \/ GmExcept(t)
    \/ GmRaise(t)
    \/ UaCheck(t)
    \/ UaDel(t)
    \/ UaClear(t)
    \/ UaActive(t)
    \/ Return(t)
    \/ EndUse(t)

ResIdle ==
    /\ workflow = None
    /\ resolved = None
    /\ wphase = "off"
    /\ api = None

\* Calls made one at a time: a call begins only when no other is in progress.
Init == MgrInit /\ ResIdle /\ ExeIdle /\ PrvIdle /\ InfIdle

Next ==
    \/ \E t \in Threads, k \in RequestKeys : CallGetModel(t, k)
    \/ \E t \in Threads : CallUnloadAll(t)
    \/ \E t \in Threads : Step(t)

Spec == Init /\ [][Next]_vars

\* The server: one thread per request (app.run(threaded=True), server.py line 851),
\* each request handler calling manager.get_model and then using the engine.
NextThreads ==
    \/ \E t \in Threads, k \in RequestKeys : StartJob(t, k)
    \/ \E t \in Threads : Step(t)

SpecThreads == Init /\ [][NextThreads]_vars

(***************************************************************************)
(* ComfyUIExecutor.resolve_setget_nodes                                    *)
(*                                                                         *)
(* A workflow is a dict with string keys.  Editor form: "nodes" is a list  *)
(* of nodes [id, type, widgets_values, inputs], "links" a list of          *)
(* <<link_id, from_node, from_slot, to_node, to_slot, type>>; inputs[i].link *)
(* is a link id, 0 for JSON null (both are falsy at lines 307 and 403).    *)
(* Compiled (API) form: one entry [class_type, inputs] per node-id key.    *)
(***************************************************************************)
SETNODE == "SetNode"
GETNODE == "GetNode"
ANYSWITCH == "Any Switch (rgthree)"

IndirectionTypes == {SETNODE, GETNODE, ANYSWITCH}

NoInput == [link |-> 0]

\* The nodes of the editor-form workflows of the model: an image loader, a
\* store "x" with two loads of "x", a load "y" that no store matches, two
\* switches and a consumer.
PaletteNodes == <<
    [id |-> 1, type |-> "LoadImage", widgets_values |-> <<"input.png">>, inputs |-> <<>>],
    [id |-> 2, type |-> SETNODE, widgets_values |-> <<"x">>, inputs |-> <<NoInput>>],
    [id |-> 3, type |-> GETNODE, widgets_values |-> <<"x">>, inputs |-> <<>>],
    [id |-> 4, type |-> GETNODE, widgets_values |-> <<"x">>, inputs |-> <<>>],
    [id |-> 5, type |-> GETNODE, widgets_values |-> <<"y">>, inputs |-> <<>>],
    [id |-> 6, type |-> ANYSWITCH, widgets_values |-> <<>>, inputs |-> <<NoInput, NoInput>>],
    [id |-> 7, type |-> ANYSWITCH, widgets_values |-> <<>>, inputs |-> <<NoInput, NoInput>>],
    [id |-> 8, type |-> "VAEEncode", widgets_values |-> <<>>, inputs |-> <<NoInput, NoInput>>] >>

\* Output slots a link can leave from, as <<node id, slot, data type>>.
OutputSlots ==
    {<<1, 0, "IMAGE">>, <<1, 1, "MASK">>} \cup {<<n, 0, "*">> : n \in 2..7}

\* Input slots a link can arrive at, as <<node id, slot>> (slots count from 0),
\* in the order link ids are given to them.
InputSlots == << <<2, 0>>, <<6, 0>>, <<6, 1>>, <<7, 0>>, <<7, 1>>, <<8, 0>>, <<8, 1>> >>

\* Node-id keys of compiled workflows (execute_sdxl_tiled_upscale, lines 1044-1059),
\* each with its characters.
KeyChars(k) ==
    CASE k = "129" -> <<"1", "2", "9">>
      [] k = "100" -> <<"1", "0", "0">>
      [] k = "114:47" -> <<"1", "1", "4", ":", "4", "7">>
      [] k = "114:23" -> <<"1", "1", "4", ":", "2", "3">>
      [] k \in {"1", "2", "3", "4", "5", "6", "7", "8"} -> <<k>>
      [] k = "nodes" -> <<"n", "o", "d", "e", "s">>
      [] k = "links" -> <<"l", "i", "n", "k", "s">>

CompiledKeys == {"129", "100", "114:47", "114:23"}

\* str.isdigit(): not empty and all characters digits
isdigit(k) ==
    LET c == KeyChars(k)
        Digits == {"0", "1", "2", "3", "4", "5", "6", "7", "8", "9"}
    IN  Len(c) > 0 /\ \A i \in 1..Len(c) : c[i] \in Digits

CompiledEntry(k) ==
    CASE k = "129" -> [class_type |-> "LoadImage", inputs |-> [image |-> "input.png"]]
      [] k = "100" -> [class_type |-> "FastFilmGrain", inputs |-> [images |-> <<"114:47", 0>>]]
      [] k = "114:47" -> [class_type |-> "ImageScaleBy", inputs |-> [image |-> <<"129", 0>>]]
      [] k = "114:23" -> [class_type |-> "KSampler", inputs |-> [latent_image |-> <<"114:47", 0>>]]

CompiledWorkflows ==
    {[k \in K |-> CompiledEntry(k)] : K \in (SUBSET CompiledKeys) \ {{}}}

EditorWorkflow(nodes, links) == [nodes |-> nodes, links |-> links]

\* dict.get(key, default)
DictGet(d, k, default) == IF k \in DOMAIN d THEN d[k] ELSE default

\* d[k] = v and del d[k] on a dict
DictSet(d, k, v) == [x \in DOMAIN d \cup {k} |-> IF x = k THEN v ELSE d[x]]
DictDel(d, k) == [x \in DOMAIN d \ {k} |-> d[x]]

\* lines 267, 454: "nodes" not in workflow and any(k.isdigit() for k in workflow.keys())
IsApiFormat(wf) == "nodes" \notin DOMAIN wf /\ \E k \in DOMAIN wf : isdigit(k)

\* lines 279-289, 379-390: the ids of the links of at least six fields, and the
\* fields stored under an id (a later link of the same id replaces an earlier one)
LinkIds(links) == {links[i][1] : i \in {j \in 1..Len(links) : Len(links[j]) >= 6}}

LinkInfo(links, id) ==
    LET I == {j \in 1..Len(links) : Len(links[j]) >= 6 /\ links[j][1] = id}
    IN  links[CHOOSE j \in I : \A j2 \in I : j2 <= j]

\* lines 298-301, 323-326: the name is the first widget value, "" without widgets
NodeName(node) ==
    IF node.widgets_values # <<>> THEN node.widgets_values[1] ELSE ""

NodeIdsOfType(nodes, type) == {nodes[i].id : i \in {j \in 1..Len(nodes) : nodes[j].type = type}}

\* lines 304-307: the SetNodes (by position) whose first input holds a link of the table
FedSetNodes(nodes, links) ==
    {i \in 1..Len(nodes) :
        /\ nodes[i].type = SETNODE
        /\ nodes[i].inputs # <<>>
        /\ nodes[i].inputs[1].link # 0
        /\ nodes[i].inputs[1].link \in LinkIds(links)}

\* lines 291-314: setnode_sources, name -> <<source node, source slot, type>>
\* (a later SetNode of the same name replaces an earlier one)
SetNodeSources(nodes, links) ==
    LET fed == FedSetNodes(nodes, links)
        names == {NodeName(nodes[i]) : i \in fed}
    IN  [name \in names |->
            LET I == {i \in fed : NodeName(nodes[i]) = name}
                last == CHOOSE i \in I : \A i2 \in I : i2 <= i
                info == LinkInfo(links, nodes[last].inputs[1].link)
            IN  <<info[2], info[3], info[6]>>]

\* lines 316-333: getnode_redirects, GetNode id -> <<source node, source slot>>
GetNodeRedirects(nodes, links) ==
    LET sources == SetNodeSources(nodes, links)
        matched == {i \in 1..Len(nodes) :
                       nodes[i].type = GETNODE /\ NodeName(nodes[i]) \in DOMAIN sources}
    IN  [g \in {nodes[i].id : i \in matched} |->
            LET I == {i \in matched : nodes[i].id = g}
                last == CHOOSE i \in I : \A i2 \in I : i2 <= i
                src == sources[NodeName(nodes[last])]
            IN  <<src[1], src[2]>>]

\* A link left as it is.
MutNotRedirected(link, origin) == link

\* A rewritten link arriving at the first input of its destination.
MutSlotLost(link, origin) ==
    <<link[1], origin[1], origin[2], link[4], 0, link[6]>> \o SubSeq(link, 7, Len(link))

\* lines 354-356, 422-424: the link with its origin replaced, its other fields kept
Redirected(link, origin) ==
    <<link[1], origin[1], origin[2], link[4], link[5], link[6]>> \o SubSeq(link, 7, Len(link))

\* lines 335-364: new_links
NewLinks(nodes, links) ==
    LET setnode_ids == NodeIdsOfType(nodes, SETNODE)
        getnode_ids == NodeIdsOfType(nodes, GETNODE)
        redirects == GetNodeRedirects(nodes, links)
        kept == SelectSeq(links, LAMBDA link :
                    /\ Len(link) >= 6
                    /\ link[4] \notin setnode_ids
                    /\ link[4] \notin getnode_ids
                    /\ (link[2] \in getnode_ids => link[2] \in DOMAIN redirects))
    IN  [i \in 1..Len(kept) |->
            IF kept[i][2] \in getnode_ids
            THEN Redirected(kept[i], redirects[kept[i][2]])
            ELSE kept[i]]

\* line 368: new_nodes
NewNodes(nodes) ==
    SelectSeq(nodes, LAMBDA n : n.type # SETNODE /\ n.type # GETNODE)

\* lines 399-407: the positions of the inputs of a switch that hold a link of the table
ConnectedInputs(node, links) ==
    {i \in 1..Len(node.inputs) :
        node.inputs[i].link # 0 /\ node.inputs[i].link \in LinkIds(links)}

\* A switch resolved to its last connected input.
MutLastConnected(nodes, links) ==
    LET connected == {i \in 1..Len(nodes) :
                         nodes[i].type = ANYSWITCH /\ ConnectedInputs(nodes[i], links) # {}}
    IN  [sw \in {nodes[i].id : i \in connected} |->
            LET I == {i \in connected : nodes[i].id = sw}
                last == CHOOSE i \in I : \A i2 \in I : i2 <= i
                C == ConnectedInputs(nodes[last], links)
                final == CHOOSE c \in C : \A c2 \in C : c2 <= c
                info == LinkInfo(links, nodes[last].inputs[final].link)
            IN  <<info[2], info[3]>>]

\* lines 392-407: anyswitch_redirects, switch id -> origin of its first connected input
AnySwitchRedirects(nodes, links) ==
    LET connected == {i \in 1..Len(nodes) :
                         nodes[i].type = ANYSWITCH /\ ConnectedInputs(nodes[i], links) # {}}
    IN  [sw \in {nodes[i].id : i \in connected} |->
            LET I == {i \in connected : nodes[i].id = sw}
                last == CHOOSE i \in I : \A i2 \in I : i2 <= i
                C == ConnectedInputs(nodes[last], links)
                first == CHOOSE c \in C : \A c2 \in C : c <= c2
                info == LinkInfo(links, nodes[last].inputs[first].link)
            IN  <<info[2], info[3]>>]

\* lines 409-428: final_links, from new_nodes and new_links
FinalLinks(nodes, links) ==
    LET anyswitch_ids == NodeIdsOfType(nodes, ANYSWITCH)
        redirects == AnySwitchRedirects(nodes, links)
        kept == SelectSeq(links, LAMBDA link :
                    Len(link) >= 6 /\ link[4] \notin anyswitch_ids)
    IN  [i \in 1..Len(kept) |->
            IF kept[i][2] \in DOMAIN redirects
            THEN Redirected(kept[i], redirects[kept[i][2]])
            ELSE kept[i]]

\* line 431: final_nodes
FinalNodes(nodes) == SelectSeq(nodes, LAMBDA n : n.type # ANYSWITCH)

\* The switch pass looking up the inputs of the switches in the links as they
\* were before the store/load pass.
MutStaleSwitchLinks(wf) ==
    IF IsApiFormat(wf) THEN wf
    ELSE LET nodes == DictGet(wf, "nodes", <<>>)
             links == DictGet(wf, "links", <<>>)
             new_nodes == NewNodes(nodes)
             new_links == NewLinks(nodes, links)
             anyswitch_ids == NodeIdsOfType(new_nodes, ANYSWITCH)
             redirects == AnySwitchRedirects(new_nodes, links)
             kept == SelectSeq(new_links, LAMBDA link : link[4] \notin anyswitch_ids)
             final_links == [i \in 1..Len(kept) |->
                                IF kept[i][2] \in DOMAIN redirects
                                THEN Redirected(kept[i], redirects[kept[i][2]])
                                ELSE kept[i]]
         IN  [k \in DOMAIN wf \cup {"nodes", "links"} |->
                 IF k = "nodes" THEN FinalNodes(new_nodes)
                 ELSE IF k = "links" THEN final_links
                 ELSE wf[k]]

\* lines 253-440: resolve_setget_nodes(workflow)
resolve_setget_nodes(wf) ==
    IF IsApiFormat(wf) THEN wf
    ELSE LET nodes == DictGet(wf, "nodes", <<>>)
             links == DictGet(wf, "links", <<>>)
             new_nodes == NewNodes(nodes)
             new_links == NewLinks(nodes, links)
             final_nodes == FinalNodes(new_nodes)
             final_links == FinalLinks(new_nodes, new_links)
         IN  [k \in DOMAIN wf \cup {"nodes", "links"} |->
                 IF k = "nodes" THEN final_nodes
                 ELSE IF k = "links" THEN final_links
                 ELSE wf[k]]

\* The position in InputSlots of the input slot a link arrives at is the link's id.
SlotOfLink(id) == InputSlots[id]

\* The workflow's author connects an output to a free input (the editor stores
\* the link in "links" and its id in the input).
AddLink(id, out) ==
    /\ wphase = "build"
    /\ "nodes" \in DOMAIN workflow
    /\ Len(workflow.links) < MaxLinks
    /\ \A i \in 1..Len(workflow.links) : workflow.links[i][1] < id
    /\ out[1] # SlotOfLink(id)[1]
    /\ LET to == SlotOfLink(id)
           link == <<id, out[1], out[2], to[1], to[2], out[3]>>
       IN  workflow' = EditorWorkflow(
               [i \in 1..Len(workflow.nodes) |->
                   IF workflow.nodes[i].id = to[1]
                   THEN [workflow.nodes[i] EXCEPT !.inputs[to[2] + 1] = [link |-> id]]
                   ELSE workflow.nodes[i]],
               Append(workflow.links, link))
    /\ UNCHANGED <<resolved, wphase, api>>
    /\ UNCHANGED <<mgrVars, exeVars, prvVars, infVars>>

\* lines 930, 1067: workflow = self.resolve_setget_nodes(workflow)
ResolveWorkflow ==
    /\ wphase = "build"
    /\ resolved' = resolve_setget_nodes(workflow)
    /\ wphase' = "done"
    /\ UNCHANGED <<workflow, api>>
    /\ UNCHANGED <<mgrVars, exeVars, prvVars, infVars>>

ResolveInit ==
    /\ MgrInit
    /\ InfIdle
    /\ ExeIdle
    /\ PrvIdle
    /\ workflow \in {EditorWorkflow(PaletteNodes, <<>>)} \cup CompiledWorkflows
    /\ resolved = None
    /\ wphase = "build"
    /\ api = None

ResolveNext ==
    \/ \E id \in 1..Len(InputSlots), out \in OutputSlots : AddLink(id, out)
    \/ ResolveWorkflow

SpecResolve == ResolveInit /\ [][ResolveNext]_vars

(***************************************************************************)
(* ComfyUIExecutor.convert_to_api_format                                   *)
(*                                                                         *)
(* Editor-form nodes carry, besides the fields above, "mode" (4 = bypassed)*)
(* and a "name" in each input.  Widget values are copied, never inspected, *)
(* so all of them are strings here; a link reference is <<str(node), slot>>.*)
(***************************************************************************)
\* The nodes of the editor-form workflows handed to the conversion: a loader, a
\* note, a sampler whose "steps" widget was turned into an input, and a writer
\* whose "filename_prefix" widget was turned into an input.
CompileNodes == <<
    [id |-> 1, type |-> "LoadImage", mode |-> 0,
     widgets_values |-> <<"input.png", "image">>, inputs |-> <<>>],
    [id |-> 2, type |-> "Note", mode |-> 0,
     widgets_values |-> <<"todo">>, inputs |-> <<>>],
    [id |-> 3, type |-> "KSampler", mode |-> 0,
     widgets_values |-> <<"42", "fixed", "8", "1.0", "euler", "normal", "0.7">>,
     inputs |-> <<[name |-> "latent_image", link |-> 0], [name |-> "steps", link |-> 0]>>],
    [id |-> 4, type |-> "SaveImage", mode |-> 0,
     widgets_values |-> <<"ComfyUI">>,
     inputs |-> <<[name |-> "images", link |-> 0], [name |-> "filename_prefix", link |-> 0]>>] >>

\* Input slots of CompileNodes as <<node id, slot>>; the link arriving at the
\* i-th of them has id i.
CompileSlots == << <<3, 0>>, <<3, 1>>, <<4, 0>>, <<4, 1>> >>

\* Output slots of CompileNodes as <<node id, slot, data type>>.
CompileOutputs == {<<1, 0, "IMAGE">>, <<1, 1, "MASK">>, <<3, 0, "LATENT">>}

\* A wiring gives each input slot the output it is linked to, or <<>>.
Wirings ==
    {w \in [1..Len(CompileSlots) -> CompileOutputs \cup {<<>>}] :
        /\ \A i \in DOMAIN w : w[i] # <<>> => w[i][1] # CompileSlots[i][1]
        /\ Cardinality({i \in DOMAIN w : w[i] # <<>>}) <= MaxLinks}

\* The links of a wiring, in the order of their ids.
WiringLinks(w) ==
    LET F[i \in 0..Len(CompileSlots)] ==
            IF i = 0 THEN <<>>
            ELSE IF w[i] = <<>> THEN F[i - 1]
            ELSE Append(F[i - 1],
                        <<i, w[i][1], w[i][2], CompileSlots[i][1], CompileSlots[i][2], w[i][3]>>)
    IN  F[Len(CompileSlots)]

\* The editor-form workflow of a wiring w and of the set B of bypassed nodes.
WiredWorkflow(w, B) ==
    EditorWorkflow(
        [n \in 1..Len(CompileNodes) |->
            [CompileNodes[n] EXCEPT
                !.mode = IF CompileNodes[n].id \in B THEN 4 ELSE 0,
                !.inputs = [s \in 1..Len(CompileNodes[n].inputs) |->
                    LET I == {i \in 1..Len(CompileSlots) :
                                 CompileSlots[i] = <<CompileNodes[n].id, s - 1>> /\ w[i] # <<>>}
                    IN  IF I = {} THEN CompileNodes[n].inputs[s]
                        ELSE [CompileNodes[n].inputs[s] EXCEPT !.link = CHOOSE i \in I : TRUE]]]],
        WiringLinks(w))

\* How many positional values the nodes of a workflow supply: as many as their
\* type has widgets, fewer, one more, or fewer in the sampler and one more in
\* the other nodes.
ValueCounts == {"exact", "fewer", "more", "uneven"}

Supplied(wf, count) ==
    EditorWorkflow(
        [n \in 1..Len(wf.nodes) |->
            LET values == wf.nodes[n].widgets_values
                fewer == SubSeq(values, 1, Len(values) \div 2)
                more == Append(values, "extra")
            IN  [wf.nodes[n] EXCEPT !.widgets_values =
                    CASE count = "exact" -> values
                      [] count = "fewer" -> fewer
                      [] count = "more" -> more
                      [] count = "uneven" ->
                            IF wf.nodes[n].type = "KSampler" THEN fewer ELSE more]],
        wf.links)

CompileInputs ==
    {Supplied(WiredWorkflow(w, B), count) :
        w \in Wirings, B \in SUBSET {1, 2, 3, 4}, count \in ValueCounts}

\* lines 473-476: CLASS_TYPE_ALIASES.get(node_type, node_type)
CLASS_TYPE_ALIASES(node_type) ==
    IF node_type = "LoaderGGUF" THEN "UnetLoaderGGUF" ELSE node_type

\* lines 481-565: WIDGET_MAPPINGS, for the node types of the model
WIDGET_MAPPINGS(node_type) ==
    CASE node_type = "LoadImage" -> << <<"image", "combo">>, <<"upload", "hidden">> >>
      [] node_type = "KSampler" ->
            << <<"seed", "int">>, <<"control_after_generate", "combo">>, <<"steps", "int">>,
               <<"cfg", "float">>, <<"sampler_name", "combo">>, <<"scheduler", "combo">>,
               <<"denoise", "float">> >>
      [] node_type = "SaveImage" -> << <<"filename_prefix", "string">> >>
      [] node_type = SETNODE -> << <<"name", "string">> >>
      [] node_type = GETNODE -> << <<"name", "string">> >>
      [] node_type = ANYSWITCH -> << <<"any_01", "wildcard">>, <<"any_02", "wildcard">> >>
      [] node_type \in {"VAEDecode", "VAEEncode", "PreviewImage"} -> <<>>
      [] OTHER -> <<>>

\* line 572: the node types that exist in the editor only
UiOnlyTypes == {"Note", "Label (rgthree)", "Fast Groups Bypasser (rgthree)", "Reroute"}

\* lines 589-595: the widget names the static table gives, under the editor
\* name of the type or, if that gives none, under its aliased name
StaticNames(node_type) ==
    IF WIDGET_MAPPINGS(node_type) # <<>> THEN WIDGET_MAPPINGS(node_type)
    ELSE WIDGET_MAPPINGS(CLASS_TYPE_ALIASES(node_type))

\* lines 611-625: the positions of the widget values that are stored under a name
NamedWidgets(widgets, widget_names) ==
    {i \in 1..Len(widgets) :
        /\ i <= Len(widget_names)
        /\ widget_names[i][2] # "hidden"
        /\ widget_names[i][1] # "control_after_generate"}

\* Hidden and control widgets taking no value from the list: the values go to
\* the remaining names in order.
MutNoConsume(widgets, widget_names) ==
    LET emitted == SelectSeq(widget_names, LAMBDA wn :
                       wn[2] # "hidden" /\ wn[1] # "control_after_generate")
        W == {i \in 1..Len(widgets) : i <= Len(emitted)}
    IN  [name \in {emitted[i][1] : i \in W} |->
            LET I == {i \in W : emitted[i][1] = name}
            IN  widgets[CHOOSE i \in I : \A i2 \in I : i2 <= i]]

\* A value beyond the mapped names stored under the last mapped name.
MutExtraOverwrites(widgets, widget_names) ==
    LET n == Len(widget_names)
        values == IF n > 0 /\ Len(widgets) > n
                  THEN Append(SubSeq(widgets, 1, n - 1), widgets[Len(widgets)])
                  ELSE widgets
        W == NamedWidgets(values, widget_names)
    IN  [name \in {widget_names[i][1] : i \in W} |->
            LET I == {i \in W : widget_names[i][1] = name}
            IN  values[CHOOSE i \in I : \A i2 \in I : i2 <= i]]

\* lines 611-625: api_node["inputs"] after the widget values were processed
WidgetInputs(widgets, widget_names) ==
    LET W == NamedWidgets(widgets, widget_names)
    IN  [name \in {widget_names[i][1] : i \in W} |->
            LET I == {i \in W : widget_names[i][1] = name}
            IN  widgets[CHOOSE i \in I : \A i2 \in I : i2 <= i]]

\* lines 628-635: what the linked inputs store, input name -> [str(from_node), from_slot]
LinkedInputs(node, links) ==
    LET inputs == DictGet(node, "inputs", <<>>)
        L == {i \in 1..Len(inputs) : inputs[i].link \in LinkIds(links)}
    IN  [name \in {DictGet(inputs[i], "name", "") : i \in L} |->
            LET I == {i \in L : DictGet(inputs[i], "name", "") = name}
                info == LinkInfo(links, inputs[CHOOSE i \in I : \A i2 \in I : i2 <= i].link)
            IN  <<ToString(info[2]), info[3]>>]

\* The dict "base" after the assignments base[k] = upd[k] were made.
MutKeepFirst(base, upd) ==
    [k \in DOMAIN base \cup DOMAIN upd |-> IF k \in DOMAIN base THEN base[k] ELSE upd[k]]

Assigned(base, upd) ==
    [k \in DOMAIN base \cup DOMAIN upd |-> IF k \in DOMAIN upd THEN upd[k] ELSE base[k]]

\* lines 582-635: api_node, given the widget names found for the node
ApiNodeOf(node, links, widget_names) ==
    [f \in {"class_type", "inputs", "_meta"} |->
        CASE f = "class_type" -> CLASS_TYPE_ALIASES(node.type)
          [] f = "inputs" ->
                Assigned(WidgetInputs(DictGet(node, "widgets_values", <<>>), widget_names),
                         LinkedInputs(node, links))
          [] f = "_meta" -> [title |-> DictGet(node, "title", node.type)]]

\* lines 582-635: api_node of a node whose type has widget names in the static table
ApiNode(node, links) == ApiNodeOf(node, links, StaticNames(node.type))

\* Every node written to the result.
MutEmitAll(nodes) == 1..Len(nodes)

\* lines 567-577: the nodes (by position) that are written to the result
EmittedNodes(nodes) ==
    {i \in 1..Len(nodes) :
        nodes[i].type \notin UiOnlyTypes /\ DictGet(nodes[i], "mode", 0) # 4}

\* lines 443-639: convert_to_api_format(workflow)
convert_to_api_format(wf) ==
    IF IsApiFormat(wf) THEN wf
    ELSE LET nodes == DictGet(wf, "nodes", <<>>)
             links == DictGet(wf, "links", <<>>)
             E == EmittedNodes(nodes)
         IN  [node_id \in {ToString(nodes[i].id) : i \in E} |->
                 LET I == {i \in E : ToString(nodes[i].id) = node_id}
                 IN  ApiNode(nodes[CHOOSE i \in I : \A i2 \in I : i2 <= i], links)]

\* lines 930-933, 1067-1070: api_workflow = self.convert_to_api_format(workflow)
CompileWorkflow ==
    /\ wphase = "done"
    /\ api' = convert_to_api_format(resolved)
    /\ wphase' = "compiled"
    /\ UNCHANGED <<workflow, resolved>>
    /\ UNCHANGED <<mgrVars, exeVars, prvVars, infVars>>

CompileInit ==
    /\ MgrInit
    /\ InfIdle
    /\ ExeIdle
    /\ PrvIdle
    /\ workflow \in CompileInputs \cup CompiledWorkflows
    /\ resolved = None
    /\ wphase = "build"
    /\ api = None

CompileNext ==
    \/ ResolveWorkflow
    \/ CompileWorkflow

SpecCompile == CompileInit /\ [][CompileNext]_vars

(***************************************************************************)
(* convert_to_api_format and get_node_info                                 *)
(*                                                                         *)
(* One executor converts the workflows of MaxCompiles jobs, one after the  *)
(* other.  The conversion loop is taken node by node, since a node whose   *)
(* type has no widget names asks the backend's /object_info endpoint.  A   *)
(* description is the "required" inputs of a node type, in order, as       *)
(* <<name, first element of the input's specification>>; "LIST" stands for *)
(* a list of options.                                                      *)
(***************************************************************************)
MaxCompiles == 2

\* lines 481-565: the keys of WIDGET_MAPPINGS
StaticKinds ==
    {"UNETLoaderGGUF", "VAELoader", "DualCLIPLoaderGGUF", "CLIPLoader", "LoraLoaderModelOnly",
     "LoRALoaderQwenImage", "LoadImage", "TextEncodeQwenImageEdit", "KSampler",
     "KSamplerSelect", "BasicScheduler", "SamplerCustomAdvanced", "EmptyLatentImage",
     "ImageScaleToTotalPixels", "VAEDecode", "VAEEncode", "SaveImage", "PreviewImage",
     SETNODE, GETNODE, "easy cleanGpuUsed", ANYSWITCH}

\* The nodes the converted workflows are made of: a sampler (widget names in
\* the table), two encoders (in the table with an empty list), a loader under
\* its old name (aliased, in the table under neither name) and a scaler (not
\* in the table).
IntrospectNodes == <<
    [id |-> 1, type |-> "KSampler", mode |-> 0,
     widgets_values |-> <<"42", "fixed", "8", "1.0", "euler", "normal", "0.7">>,
     inputs |-> <<>>],
    [id |-> 2, type |-> "VAEEncode", mode |-> 0, widgets_values |-> <<>>, inputs |-> <<>>],
    [id |-> 3, type |-> "VAEEncode", mode |-> 0, widgets_values |-> <<"tiled">>,
     inputs |-> <<>>],
    [id |-> 4, type |-> "LoaderGGUF", mode |-> 0, widgets_values |-> <<"qwen.gguf">>,
     inputs |-> <<>>],
    [id |-> 5, type |-> "ImageScaleBy", mode |-> 0, widgets_values |-> <<"lanczos", "2.0">>,
     inputs |-> <<>>] >>

IntrospectInputs ==
    {EditorWorkflow(SelectSeq(IntrospectNodes, LAMBDA n : n.id \in S), <<>>) :
        S \in (SUBSET {1, 2, 3, 4, 5}) \ {{}}}

\* What the backend answers to GET /object_info/<kind>: no usable answer (an
\* exception, a timeout or a status other than 200), or a body whose entry for
\* the kind is missing, has connection inputs only, or has widget inputs too.
Descriptions ==
    {<<>>,
     << <<"pixels", "IMAGE">>, <<"vae", "VAE">> >>,
     << <<"image", "IMAGE">>, <<"upscale_method", "LIST">>, <<"scale_by", "FLOAT">> >>}

Responses ==
    {[ok |-> FALSE, required |-> <<>>]} \cup {[ok |-> TRUE, required |-> d] : d \in Descriptions}

\* The cache never hit.
MutNeverCached(kind) == FALSE

\* line 46: node_type in self._node_info_cache
Cached(kind) == kind \in DOMAIN node_info_cache

\* lines 44-59: what get_node_info(kind) returns, <<description>> or <<>> for None
Returned(kind, response) ==
    IF Cached(kind) THEN <<node_info_cache[kind]>>
    ELSE IF response.ok THEN <<response.required>>
    ELSE <<>>

\* lines 44-59: get_node_info(kind), called for a node of type node_type
get_node_info(node_type, kind, response) ==
    /\ last_call' = [node_type |-> node_type, kind |-> kind, sent |-> ~Cached(kind),
                     returned |-> Returned(kind, response)]
    /\ node_info_cache' = IF ~Cached(kind) /\ response.ok
                          THEN DictSet(node_info_cache, kind, response.required)
                          ELSE node_info_cache
    /\ answered' = IF ~Cached(kind) /\ response.ok /\ kind \notin DOMAIN answered
                   THEN DictSet(answered, kind, response.required)
                   ELSE answered

\* lines 600-609: the widget names taken from a description
DynamicNames(required) ==
    LET widget == SelectSeq(required, LAMBDA inp :
                      inp[2] \in {"LIST", "INT", "FLOAT", "STRING", "BOOLEAN"})
    IN  [i \in 1..Len(widget) |-> <<widget[i][1], "dynamic">>]

\* WIDGET_MAPPINGS.get(node_type, []) in the running conversion
Mapped(node_type) ==
    IF node_type \in DOMAIN mappings THEN mappings[node_type] ELSE WIDGET_MAPPINGS(node_type)

\* lines 930-933: execute hands the resolved workflow to convert_to_api_format;
\* lines 443-467: api_workflow = {} and the tables of the call are built
ConvertStart ==
    /\ wphase = "done"
    /\ compiles < MaxCompiles
    /\ compiles' = compiles + 1
    /\ wphase' = "converting"
    /\ api' = <<>>
    /\ mappings' = <<>>
    /\ cnode' = 1
    /\ last_call' = NoCall
    /\ UNCHANGED <<workflow, resolved, node_info_cache, answered>>
    /\ UNCHANGED <<mgrVars, exeVars, prvVars>>

\* lines 567-637: one round of the loop over the nodes
ConvertNode(response) ==
    /\ wphase = "converting"
    /\ cnode <= Len(resolved.nodes)
    /\ cnode' = cnode + 1
    /\ LET node == resolved.nodes[cnode]
           node_type == DictGet(node, "type", "")
           api_class_type == CLASS_TYPE_ALIASES(node_type)
           static == IF Mapped(node_type) # <<>> THEN Mapped(node_type)
                     ELSE Mapped(api_class_type)
       IN  IF cnode \notin EmittedNodes(resolved.nodes)
           THEN /\ last_call' = NoCall
                /\ UNCHANGED <<api, mappings, node_info_cache, answered>>
           ELSE IF static # <<>>
           THEN /\ api' = DictSet(api, ToString(node.id),
                                  ApiNodeOf(node, resolved.links, static))
                /\ last_call' = NoCall
                /\ UNCHANGED <<mappings, node_info_cache, answered>>
           ELSE LET node_info == Returned(api_class_type, response)
                    widget_names == IF node_info # <<>> THEN DynamicNames(node_info[1])
                                    ELSE <<>>
                IN  /\ get_node_info(node_type, api_class_type, response)
                    /\ mappings' = IF api_class_type \in StaticKinds /\ widget_names # <<>>
                                   THEN DictSet(mappings, api_class_type, widget_names)
                                   ELSE mappings
                    /\ api' = DictSet(api, ToString(node.id),
                                      ApiNodeOf(node, resolved.links, widget_names))
    /\ UNCHANGED <<workflow, resolved, wphase, compiles>>
    /\ UNCHANGED <<mgrVars, exeVars, prvVars>>

\* line 639: return api_workflow
ConvertReturn ==
    /\ wphase = "converting"
    /\ cnode > Len(resolved.nodes)
    /\ wphase' = "compiled"
    /\ cnode' = 0
    /\ UNCHANGED <<workflow, resolved, api, node_info_cache, answered, last_call, mappings,
                   compiles>>
    /\ UNCHANGED <<mgrVars, exeVars, prvVars>>

\* lines 864-920: execute is called for the next job
NextJob(wf) ==
    /\ wphase = "compiled"
    /\ compiles < MaxCompiles
    /\ workflow' = wf
    /\ resolved' = None
    /\ api' = None
    /\ wphase' = "build"
    /\ UNCHANGED infVars
    /\ UNCHANGED <<mgrVars, exeVars, prvVars>>

IntrospectInit ==
    /\ MgrInit
    /\ InfIdle
    /\ ExeIdle
    /\ PrvIdle
    /\ workflow \in IntrospectInputs
    /\ resolved = None
    /\ wphase = "build"
    /\ api = None

IntrospectNext ==
    \/ ResolveWorkflow
    \/ ConvertStart
    \/ \E response \in Responses : ConvertNode(response)
    \/ ConvertReturn
    \/ \E wf \in IntrospectInputs : NextJob(wf)

SpecIntrospect == IntrospectInit /\ [][IntrospectNext]_vars

(***************************************************************************)
(* ComfyUIExecutor.execute: submitting a job and monitoring it             *)
(*                                                                         *)
(* Time is counted in ticks since wait_for_result's start_time; the timeout*)
(* of the call is Deadline ticks.  At most MaxMsgs messages are delivered  *)
(* by the streaming channel.                                               *)
(***************************************************************************)
\* lines 641-664: what queue_prompt returns in a pass, by what the POST met
QueueOutcomes == {"transport_error", "rejected", "no_prompt_id", "accepted"}

queue_prompt(outcome) ==
    IF outcome = "accepted" THEN "p" \o ToString(jpass) ELSE None

\* A missing submission treated as made.
MutSubmittedAlways(pid) == TRUE

\* lines 941, 1077: "if not prompt_id: return None", negated
Submitted(pid) == pid # None

\* int(p * 0.7) in double precision, for p in 0..100
IntTimes07(p) == IF p = 90 THEN 62 ELSE (p * 7) \div 10

\* lines 971-975: hires_progress, and the identity for the first pass
Outer(p) == IF jpass = 2 THEN 50 + p \div 2 ELSE p

\* lines 949-954, 1085-1089: internal_progress, handed to wait_for_result
Overall(p) ==
    IF jpass = 2 THEN Outer(25 + IntTimes07(p))
    ELSE LET end_range == IF hires THEN 50 ELSE 95
         IN  25 + (p * (end_range - 25)) \div 100

Report(values) == reported \o [i \in 1..Len(values) |-> Outer(values[i])]

\* lines 892-937, 1018-1073: the steps before the submission
Prepare(outcome) ==
    /\ jpc = "start"
    /\ \/ /\ outcome = "server_down"
          /\ reported' = Report(<<5>>)
          /\ jpc' = "done"
       \/ /\ outcome = "upload_failed"
          /\ reported' = Report(<<5, 10>>)
          /\ jpc' = "done"
       \/ /\ outcome = "ok"
          /\ reported' = Report(<<5, 10, 15, 20>>)
          /\ jpc' = "queue"
    /\ UNCHANGED <<jpass, hires, prompt_id, submits, waits, clock, ws, received,
                   history, seen, jret>>
    /\ UNCHANGED <<mgrVars, resVars, api, prvVars, infVars, msg, monVars>>

\* lines 939-960, 683-685, 1075-1096: queue_prompt, then return None or enter
\* wait_for_result
Submit(outcome) ==
    /\ jpc = "queue"
    /\ submits' = submits + 1
    /\ prompt_id' = queue_prompt(outcome)
    /\ IF Submitted(prompt_id')
       THEN /\ reported' = Report(<<25>>)
            /\ waits' = waits + 1
            /\ clock' = 0
            /\ current_step' = 0
            /\ jprogress' = -1
            /\ jpc' = "connect"
       ELSE /\ jpc' = "done"
            /\ UNCHANGED <<reported, waits, clock, current_step, jprogress>>
    /\ UNCHANGED <<jpass, hires, ws, received, history, seen, jret, previewed>>
    /\ UNCHANGED <<mgrVars, resVars, api, prvVars, infVars, msg>>

\* lines 688-694, 775-778: websocket.create_connection succeeds, or raises and
\* monitoring goes to _poll_for_result
Connect(ok) ==
    /\ jpc = "connect"
    /\ IF ok
       THEN ws' = "open" /\ jpc' = "recv" /\ UNCHANGED seen
       ELSE jpc' = "poll" /\ seen' = seen \cup {"connect_failed", "polled"} /\ UNCHANGED ws
    /\ UNCHANGED <<jpass, hires, prompt_id, submits, waits, clock, received, reported,
                   history, jret>>
    /\ UNCHANGED <<mgrVars, resVars, api, prvVars, infVars, msg, monVars>>

\* The job is in the receive loop of lines 696-771 and its condition holds.
Receiving == jpc = "recv" /\ clock < Deadline

\* ws.recv() without a timeout: on a channel that delivers nothing it does not
\* return.
MutRecvBlocks ==
    /\ Receiving
    /\ ws = "open"
    /\ UNCHANGED vars

\* lines 692, 699, 764-766: ws.recv() times out after one second (ws.settimeout(1.0))
RecvTimeout ==
    /\ Receiving
    /\ ws = "open"
    /\ clock' = clock + 1
    /\ UNCHANGED <<jpc, jpass, hires, prompt_id, submits, waits, ws, received, reported,
                   history, seen, jret>>
    /\ UNCHANGED <<mgrVars, resVars, api, prvVars, infVars, msg, monVars>>

\* lines 702-731: a binary message (a preview image of more than 8 bytes, with
\* a preview_callback given): preview_callback(preview_b64, current_step); the
\* local preview_interval of line 686 is not read
RecvPreview ==
    /\ Receiving
    /\ ws = "open"
    /\ received < MaxMsgs
    /\ received' = received + 1
    /\ previewed' = current_step
    /\ UNCHANGED <<jpc, jpass, hires, prompt_id, submits, waits, clock, ws, reported,
                   history, seen, jret, jprogress, current_step>>
    /\ msg' = [type |-> "binary", node |-> None, prompt_id |-> None]
    /\ UNCHANGED <<mgrVars, resVars, api, prvVars, infVars>>

\* The "progress" messages of the model, as <<value, max>>: steps of a run of 4
\* and of a run of 50 steps, and one of a run without steps.
ProgressMessages == {<<1, 4>>, <<4, 4>>, <<29, 50>>, <<0, 0>>}

\* lines 745, 797: int((a / b) * 100) in double precision, for 0 <= a and
\* 0 < b <= 100; TruncatedLow holds the <<a, b>> with a <= b for which the
\* double (a / b) * 100 lies just below the integer 100a/b, so that int() gives
\* one less
Percentage(a, b) ==
    LET TruncatedLow == {<<29, 50>>, <<29, 100>>, <<57, 100>>, <<58, 100>>}
    IN  IF <<a, b>> \in TruncatedLow THEN (a * 100) \div b - 1 ELSE (a * 100) \div b

\* lines 738-747: a "progress" message, of this job or of another job of the
\* same client id
RecvProgress(value, max_val, pid) ==
    /\ Receiving
    /\ ws = "open"
    /\ received < MaxMsgs
    /\ received' = received + 1
    /\ current_step' = value
    /\ IF max_val > 0
       THEN /\ jprogress' = Percentage(value, max_val)
            /\ reported' = Append(reported, Overall(jprogress'))
       ELSE UNCHANGED <<jprogress, reported>>
    /\ UNCHANGED <<jpc, jpass, hires, prompt_id, submits, waits, clock, ws, history,
                   seen, jret, previewed>>
    /\ msg' = [type |-> "progress", node |-> None, prompt_id |-> pid,
               value |-> value, max |-> max_val]
    /\ UNCHANGED <<mgrVars, resVars, api, prvVars, infVars>>

\* Every message without a node taken for the end of the job.
MutAnyJob(node, pid) == node = None

\* line 751: node is None and msg_data.get("prompt_id") == prompt_id
IsSentinel(node, pid) == node = None /\ pid = prompt_id

\* lines 749-754, 773: an "executing" message; with node null and the prompt's
\* id it ends the loop
RecvExecuting(node, pid) ==
    /\ Receiving
    /\ ws = "open"
    /\ received < MaxMsgs
    /\ received' = received + 1
    /\ IF IsSentinel(node, pid)
       THEN jpc' = "fetch" /\ ws' = "closed" /\ seen' = seen \cup {"sentinel"}
       ELSE UNCHANGED <<jpc, ws, seen>>
    /\ UNCHANGED <<jpass, hires, prompt_id, submits, waits, clock, reported, history, jret>>
    /\ msg' = [type |-> "executing", node |-> node, prompt_id |-> pid]
    /\ UNCHANGED <<mgrVars, resVars, api, prvVars, infVars, monVars>>

\* The types of the JSON messages of ComfyUI that no branch of lines 741-762
\* handles.
OtherTypes == {"status", "executed"}

\* lines 734-762: a JSON message of another type; no branch is taken, whatever
\* its data
RecvOther(type, node, pid) ==
    /\ Receiving
    /\ ws = "open"
    /\ received < MaxMsgs
    /\ received' = received + 1
    /\ msg' = [type |-> type, node |-> node, prompt_id |-> pid]
    /\ UNCHANGED <<jpc, jpass, hires, prompt_id, submits, waits, clock, ws, reported,
                   history, seen, jret>>
    /\ UNCHANGED <<mgrVars, resVars, api, prvVars, infVars, monVars>>

\* lines 756-762, 767-769, 775-778: an "execution_error" message, of this job
\* or of another job of the same client id: ws.close(),
\* RuntimeError raised, re-raised at line 769 and caught at line 775
RecvExecutionError(pid) ==
    /\ Receiving
    /\ ws = "open"
    /\ received < MaxMsgs
    /\ received' = received + 1
    /\ ws' = "closed"
    /\ jpc' = "poll"
    /\ seen' = seen \cup {"execution_error", "polled"}
    /\ UNCHANGED <<jpass, hires, prompt_id, submits, waits, clock, reported, history, jret>>
    /\ msg' = [type |-> "execution_error", node |-> None, prompt_id |-> pid]
    /\ UNCHANGED <<mgrVars, resVars, api, prvVars, infVars, monVars>>

\* lines 699, 770-771: the server closes the connection; ws.recv() raises an
\* exception that is no RuntimeError and is logged
RecvClosed ==
    /\ Receiving
    /\ ws = "open"
    /\ ws' = "lost"
    /\ seen' = seen \cup {"lost"}
    /\ UNCHANGED <<jpc, jpass, hires, prompt_id, submits, waits, clock, received, reported,
                   history, jret>>
    /\ UNCHANGED <<mgrVars, resVars, api, prvVars, infVars, msg, monVars>>

\* lines 696-699, 770-771: ws.recv() on the lost connection raises again, until
\* a tick has passed
RecvOnLost ==
    /\ Receiving
    /\ ws = "lost"
    /\ clock' = clock + 1
    /\ UNCHANGED <<jpc, jpass, hires, prompt_id, submits, waits, ws, received, reported,
                   history, seen, jret>>
    /\ UNCHANGED <<mgrVars, resVars, api, prvVars, infVars, msg, monVars>>

\* lines 696, 773: the loop condition fails; ws.close()
StreamDeadline ==
    /\ jpc = "recv"
    /\ clock >= Deadline
    /\ ws' = "closed"
    /\ jpc' = "fetch"
    /\ seen' = seen \cup {"deadline"}
    /\ UNCHANGED <<jpass, hires, prompt_id, submits, waits, clock, received, reported,
                   history, jret>>
    /\ UNCHANGED <<mgrVars, resVars, api, prvVars, infVars, msg, monVars>>

\* The entries ComfyUI stores for a finished prompt: its status, and the
\* outputs of the nodes that ran (an image of node "9", or none).
ImageOutput == [n \in {"9"} |-> [images |-> <<[filename |-> "out.png"]>>]]

HistoryEntries ==
    {[status |-> [status_str |-> st], outputs |-> o] :
        st \in {"success", "error"}, o \in {<<>>, ImageOutput}}

\* ComfyUI finishes the prompt and stores its entry.
Finish(entry) ==
    /\ prompt_id # None
    /\ jpc \in {"connect", "recv", "poll", "fetch"}
    /\ prompt_id \notin DOMAIN history
    /\ history' = [k \in DOMAIN history \cup {prompt_id} |->
                      IF k = prompt_id THEN entry ELSE history[k]]
    /\ UNCHANGED <<jpc, jpass, hires, prompt_id, submits, waits, clock, ws, received,
                   reported, seen, jret>>
    /\ UNCHANGED <<mgrVars, resVars, api, prvVars, infVars, msg, monVars>>

\* An entry never taken for a failure.
MutNeverError(entry) == FALSE

\* lines 819-820: status.get("status_str") == "error"
IsErrorStatus(entry) ==
    DictGet(DictGet(entry, "status", <<>>), "status_str", None) = "error"

\* lines 804-840: _fetch_result_from_history; "http" tells whether the requests
\* to /history and /view succeed
fetch_result_from_history(pid, http) ==
    IF http # "ok" \/ pid \notin DOMAIN history THEN None
    ELSE IF IsErrorStatus(history[pid]) THEN None
    ELSE LET outputs == DictGet(history[pid], "outputs", <<>>)
         IN  IF \E n \in DOMAIN outputs : DictGet(outputs[n], "images", <<>>) # <<>>
             THEN "image bytes"
             ELSE None

HttpOutcomes == {"ok", "failed"}

\* The ticks a request to /history (and to /view) can take.
FetchTicks == {0, 1}

\* line 781: return self._fetch_result_from_history(prompt_id)
Fetch(http, took) ==
    /\ jpc = "fetch"
    /\ jret' = fetch_result_from_history(prompt_id, http)
    /\ clock' = clock + took
    /\ seen' = seen \cup {"fetched"}
    /\ jpc' = "returned"
    /\ UNCHANGED <<jpass, hires, prompt_id, submits, waits, ws, received, reported,
                   history>>
    /\ UNCHANGED <<mgrVars, resVars, api, prvVars, infVars, msg, monVars>>

\* The estimate without its cap.
MutUncapped(elapsed) == Percentage(elapsed, Deadline)

\* line 797: min(95, int((elapsed / timeout) * 100))
Estimate(elapsed) ==
    IF Percentage(elapsed, Deadline) < 95 THEN Percentage(elapsed, Deadline) ELSE 95

\* The polling loop given a timeout of its own after the streaming phase.
MutOwnTimeout == clock < 2 * Deadline

\* line 791: time.time() - start_time < timeout, with the start_time of
\* wait_for_result (lines 683, 778)
PollTimeLeft == clock < Deadline

\* lines 791-801: one round of _poll_for_result; the request for the result
\* takes "took" ticks, the sleep of line 801 one
Poll(http, took) ==
    /\ jpc = "poll"
    /\ PollTimeLeft
    /\ LET found == fetch_result_from_history(prompt_id, http)
           elapsed == clock + took
       IN  IF found # None
           THEN /\ jret' = found
                /\ jpc' = "returned"
                /\ clock' = elapsed
                /\ seen' = seen \cup {"fetched"}
                /\ UNCHANGED <<reported, jprogress>>
           ELSE /\ jprogress' = Estimate(elapsed)
                /\ reported' = Append(reported, Overall(jprogress'))
                /\ clock' = elapsed + 1
                /\ seen' = seen \cup {"fetched", "estimated"}
                /\ UNCHANGED <<jpc, jret>>
    /\ UNCHANGED <<jpass, hires, prompt_id, submits, waits, ws, received, history,
                   current_step, previewed>>
    /\ UNCHANGED <<mgrVars, resVars, api, prvVars, infVars, msg>>

\* lines 791, 802: the loop condition fails; return None
PollDeadline ==
    /\ jpc = "poll"
    /\ ~PollTimeLeft
    /\ jret' = None
    /\ jpc' = "returned"
    /\ seen' = seen \cup {"deadline"}
    /\ UNCHANGED <<jpass, hires, prompt_id, submits, waits, clock, ws, received, reported,
                   history>>
    /\ UNCHANGED <<mgrVars, resVars, api, prvVars, infVars, msg, monVars>>

\* lines 962-988, 1098-1103: after wait_for_result: return None, return the
\* image, or start the chained pass (execute_sdxl_tiled_upscale)
AfterWait ==
    /\ jpc = "returned"
    /\ IF jret # None /\ jpass = 1 /\ hires
       THEN /\ jpass' = 2
            /\ jpc' = "start"
            /\ prompt_id' = None
            /\ submits' = 0
            /\ waits' = 0
            /\ clock' = 0
            /\ ws' = "none"
            /\ seen' = {}
            /\ jret' = None
            /\ UNCHANGED reported
       ELSE /\ jpc' = "done"
            /\ reported' = IF jret # None /\ jpass = 2 THEN Report(<<100>>) ELSE reported
            /\ UNCHANGED <<jpass, prompt_id, submits, waits, clock, ws, seen, jret>>
    /\ UNCHANGED <<hires, received, history>>
    /\ UNCHANGED <<mgrVars, resVars, api, prvVars, infVars, msg, monVars>>

\* lines 864-876: execute is called, with or without the chained pass
ExecuteInit ==
    /\ MgrInit
    /\ InfIdle
    /\ ResIdle
    /\ PrvIdle
    /\ jpc = "start"
    /\ jpass = 1
    /\ hires \in BOOLEAN
    /\ prompt_id = None
    /\ submits = 0
    /\ waits = 0
    /\ clock = 0
    /\ ws = "none"
    /\ received = 0
    /\ reported = <<>>
    /\ history = <<>>
    /\ seen = {}
    /\ jret = None
    /\ msg = NoMsg
    /\ jprogress = -1
    /\ current_step = 0
    /\ previewed = -1

ExecuteNext ==
    \/ \E outcome \in {"server_down", "upload_failed", "ok"} : Prepare(outcome)
    \/ \E outcome \in QueueOutcomes : Submit(outcome)
    \/ \E ok \in BOOLEAN : Connect(ok)
    \/ RecvTimeout
    \/ RecvPreview
    \/ \E m \in ProgressMessages, pid \in {"p1", "p2"} : RecvProgress(m[1], m[2], pid)
    \/ \E node \in {None, "7"}, pid \in {"p1", "p2"} : RecvExecuting(node, pid)
    \/ \E type \in OtherTypes, pid \in {"p1", "p2"} : RecvOther(type, None, pid)
    \/ \E pid \in {"p1", "p2"} : RecvExecutionError(pid)
    \/ RecvClosed
    \/ RecvOnLost
    \/ StreamDeadline
    \/ \E entry \in HistoryEntries : Finish(entry)
    \/ \E http \in HttpOutcomes, took \in FetchTicks : Fetch(http, took)
    \/ \E http \in HttpOutcomes, took \in FetchTicks : Poll(http, took)
    \/ PollDeadline
    \/ AfterWait

SpecExecute == ExecuteInit /\ [][ExecuteNext]_vars

\* The steps of wait_for_result and _poll_for_result that the worker thread
\* takes by itself: every blocking call in them has a timeout
\* (create_connection 5 s, line 691; recv 1 s, line 692; requests.get 10 s and
\* 30 s, lines 807, 850) or a fixed length (sleep 0.5 s, line 801).
WaitStep ==
    \/ \E ok \in BOOLEAN : Connect(ok)
    \/ RecvTimeout
    \/ RecvOnLost
    \/ StreamDeadline
    \/ \E http \in HttpOutcomes, took \in FetchTicks : Fetch(http, took)
    \/ \E http \in HttpOutcomes, took \in FetchTicks : Poll(http, took)
    \/ PollDeadline

\* The worker thread that runs the job is not starved.
SpecExecuteFair == SpecExecute /\ WF_vars(WaitStep)

(***************************************************************************)
(* server.py: progress_store, preview_store and the preview stream         *)
(*                                                                         *)
(* One request, with correlation id "r1": its handler runs in one thread   *)
(* of the server, the generator of GET /preview/r1 in another.  The        *)
(* generator gives up after max_timeouts empty polls in a row (600 in the  *)
(* code).  The threads interleave between the statements of send_preview   *)
(* and of the generator's first lines.                                     *)
(***************************************************************************)
request_id == "r1"

\* The endpoints that call update_progress with a final status; the first two
\* pass a preview callback (lines 369-381, 617-626).
PreviewEndpoints == {"/enhance", "/make-real"}
Endpoints == PreviewEndpoints \cup {"/face-enhance", "/inpaint"}

\* lines 349, 446, 537, 610: the progress of the first update_progress call
StartProgress(e) ==
    CASE e = "/enhance" -> 0
      [] e = "/make-real" -> 5
      [] e = "/face-enhance" -> 10
      [] e = "/inpaint" -> 5

\* lines 405, 484, 570, 665: the status of the last update_progress call
FinalStatus(e) == IF e \in PreviewEndpoints THEN "complete" ELSE "done"

\* lines 44-52: update_progress(request_id, step, progress, status)
update_progress(progress, status) ==
    progress_store' = DictSet(progress_store, request_id,
                              [status |-> status, progress |-> progress])

\* The request arrives; the handler's first update_progress call.
HandlerStart(e) ==
    /\ hpc = "idle"
    /\ endpoint' = e
    /\ update_progress(StartProgress(e), "processing")
    /\ hpc' = "run"
    /\ UNCHANGED <<preview_store, spc, timeout_count, sse, sent, queues, squeue, ppc, hqueue>>
    /\ UNCHANGED <<mgrVars, resVars, api, exeVars, infVars>>

\* lines 360-366, 613-614: a progress callback of the running job
HandlerProgress ==
    /\ hpc = "run"
    /\ ppc = "none"
    /\ update_progress(50, "processing")
    /\ UNCHANGED <<preview_store, endpoint, hpc, spc, timeout_count, sse, sent,
                   queues, squeue, ppc, hqueue>>
    /\ UNCHANGED <<mgrVars, resVars, api, exeVars, infVars>>

\* A queue that puts at the head: last in, first out.
MutPutFront(queue, item) == <<item>> \o queue

\* queue.Queue: put appends at the tail, get takes from the head
queue_put(queue, item) == Append(queue, item)
queue_get(queue) == [item |-> Head(queue), rest |-> Tail(queue)]

\* lines 56, 369-370, 617-618: send_preview is called from the job's preview
\* callback and evaluates "request_id not in preview_store"; the step number
\* tells the previews of the request apart
SendCheck ==
    /\ hpc = "run"
    /\ ppc = "none"
    /\ endpoint \in PreviewEndpoints
    /\ sent < MaxPreviews
    /\ sent' = sent + 1
    /\ ppc' = IF request_id \notin DOMAIN preview_store THEN "create" ELSE "lookup"
    /\ UNCHANGED <<progress_store, preview_store, endpoint, hpc, spc, timeout_count, sse,
                   queues, squeue, hqueue>>
    /\ UNCHANGED <<mgrVars, resVars, api, exeVars, infVars>>

\* line 57: preview_store[request_id] = Queue(); the identity of the new Queue
\* object is its position in "queues"
SendCreate ==
    /\ ppc = "create"
    /\ queues' = Append(queues, <<>>)
    /\ preview_store' = DictSet(preview_store, request_id, Len(queues'))
    /\ ppc' = "lookup"
    /\ UNCHANGED <<progress_store, endpoint, hpc, spc, timeout_count, sse, sent,
                   squeue, hqueue>>
    /\ UNCHANGED <<mgrVars, resVars, api, exeVars, infVars>>

\* line 58: preview_store[request_id] is looked up; KeyError, which ends the
\* call, if the generator's cleanup has deleted the entry in between
SendLookup ==
    /\ ppc = "lookup"
    /\ IF request_id \in DOMAIN preview_store
       THEN hqueue' = preview_store[request_id] /\ ppc' = "put"
       ELSE hqueue' = 0 /\ ppc' = "none"
    /\ UNCHANGED <<progress_store, preview_store, endpoint, hpc, spc, timeout_count, sse,
                   sent, queues, squeue>>
    /\ UNCHANGED <<mgrVars, resVars, api, exeVars, infVars>>

\* lines 58-62: .put({"image": ..., "step": ...}) on the Queue object found
SendPut ==
    /\ ppc = "put"
    /\ queues' = [queues EXCEPT ![hqueue] = queue_put(@, [image |-> "b64", step |-> sent])]
    /\ hqueue' = 0
    /\ ppc' = "none"
    /\ UNCHANGED <<progress_store, preview_store, endpoint, hpc, spc, timeout_count, sse,
                   sent, squeue>>
    /\ UNCHANGED <<mgrVars, resVars, api, exeVars, infVars>>

\* lines 405, 484, 570, 665: the job succeeded
HandlerComplete ==
    /\ hpc = "run"
    /\ ppc = "none"
    /\ update_progress(100, FinalStatus(endpoint))
    /\ hpc' = "returned"
    /\ UNCHANGED <<preview_store, endpoint, spc, timeout_count, sse, sent,
                   queues, squeue, ppc, hqueue>>
    /\ UNCHANGED <<mgrVars, resVars, api, exeVars, infVars>>

\* lines 354-355, 422-424, 629-633, 679-690: the job failed; an error response
\* is returned
HandlerFail ==
    /\ hpc = "run"
    /\ ppc = "none"
    /\ hpc' = "failed"
    /\ UNCHANGED <<progress_store, preview_store, endpoint, spc, timeout_count, sse, sent,
                   queues, squeue, ppc, hqueue>>
    /\ UNCHANGED <<mgrVars, resVars, api, exeVars, infVars>>

\* lines 207-209: the client opens GET /preview/<request_id>; the generator
\* evaluates "request_id not in preview_store"
StreamOpen ==
    /\ spc = "off"
    /\ spc' = IF request_id \notin DOMAIN preview_store THEN "create" ELSE "bind"
    /\ UNCHANGED <<progress_store, preview_store, endpoint, hpc, timeout_count, sse, sent,
                   queues, squeue, ppc, hqueue>>
    /\ UNCHANGED <<mgrVars, resVars, api, exeVars, infVars>>

\* line 210: preview_store[request_id] = Queue()
StreamCreate ==
    /\ spc = "create"
    /\ queues' = Append(queues, <<>>)
    /\ preview_store' = DictSet(preview_store, request_id, Len(queues'))
    /\ spc' = "bind"
    /\ UNCHANGED <<progress_store, endpoint, hpc, timeout_count, sse, sent,
                   squeue, ppc, hqueue>>
    /\ UNCHANGED <<mgrVars, resVars, api, exeVars, infVars>>

\* lines 212-214: queue = preview_store[request_id]; timeout_count = 0
StreamBind ==
    /\ spc = "bind"
    /\ squeue' = preview_store[request_id]
    /\ timeout_count' = 0
    /\ spc' = "loop"
    /\ UNCHANGED <<progress_store, preview_store, endpoint, hpc, sse, sent,
                   queues, ppc, hqueue>>
    /\ UNCHANGED <<mgrVars, resVars, api, exeVars, infVars>>

\* The generator is in the loop of lines 216-239 and its condition holds.
Streaming == spc = "loop" /\ timeout_count < max_timeouts

\* lines 217-225: queue.get returns a preview
StreamGet ==
    /\ Streaming
    /\ queues[squeue] # <<>>
    /\ LET got == queue_get(queues[squeue])
       IN  /\ sse' = Append(sse, got.item)
           /\ queues' = [queues EXCEPT ![squeue] = got.rest]
    /\ timeout_count' = 0
    /\ UNCHANGED <<progress_store, preview_store, endpoint, hpc, spc, sent,
                   squeue, ppc, hqueue>>
    /\ UNCHANGED <<mgrVars, resVars, api, exeVars, infVars>>

\* line 230: a keepalive is sent every KeepaliveEvery empty polls
KeepaliveEvery == 20

\* lines 227-239: queue.get times out
StreamEmpty ==
    /\ Streaming
    /\ queues[squeue] = <<>>
    /\ timeout_count' = timeout_count + 1
    /\ LET kept == IF timeout_count' % KeepaliveEvery = 0
                   THEN Append(sse, [comment |-> "keepalive"]) ELSE sse
       IN  IF /\ request_id \in DOMAIN progress_store
              /\ DictGet(progress_store[request_id], "status", "") \in {"done", "error"}
           THEN sse' = Append(kept, [done |-> TRUE]) /\ spc' = "cleanup"
           ELSE sse' = kept /\ UNCHANGED spc
    /\ UNCHANGED <<progress_store, preview_store, endpoint, hpc, sent,
                   queues, squeue, ppc, hqueue>>
    /\ UNCHANGED <<mgrVars, resVars, api, exeVars, infVars>>

\* line 216: the loop condition fails
StreamGiveUp ==
    /\ spc = "loop"
    /\ timeout_count >= max_timeouts
    /\ spc' = "cleanup"
    /\ UNCHANGED <<progress_store, preview_store, endpoint, hpc, timeout_count, sse, sent,
                   queues, squeue, ppc, hqueue>>
    /\ UNCHANGED <<mgrVars, resVars, api, exeVars, infVars>>

\* lines 241-245: cleanup
StreamCleanup ==
    /\ spc = "cleanup"
    /\ preview_store' = DictDel(preview_store, request_id)
    /\ progress_store' = DictDel(progress_store, request_id)
    /\ spc' = "closed"
    /\ UNCHANGED <<endpoint, hpc, timeout_count, sse, sent, queues, squeue, ppc, hqueue>>
    /\ UNCHANGED <<mgrVars, resVars, api, exeVars, infVars>>

PreviewInit ==
    /\ MgrInit
    /\ InfIdle
    /\ ResIdle
    /\ ExeIdle
    /\ progress_store = <<>>
    /\ preview_store = <<>>
    /\ endpoint = None
    /\ hpc = "idle"
    /\ spc = "off"
    /\ timeout_count = 0
    /\ sse = <<>>
    /\ sent = 0
    /\ queues = <<>>
    /\ squeue = 0
    /\ ppc = "none"
    /\ hqueue = 0

PreviewNext ==
    \/ \E e \in Endpoints : HandlerStart(e)
    \/ HandlerProgress
    \/ SendCheck
    \/ SendCreate
    \/ SendLookup
    \/ SendPut
    \/ HandlerComplete
    \/ HandlerFail
    \/ StreamOpen
    \/ StreamCreate
    \/ StreamBind
    \/ StreamGet
    \/ StreamEmpty
    \/ StreamGiveUp
    \/ StreamCleanup

SpecPreview == PreviewInit /\ [][PreviewNext]_vars

(***************************************************************************)
(* resolve_setget_nodes: properties                                        *)
(***************************************************************************)
Resolved == wphase = "done"

EditorInput == "nodes" \in DOMAIN workflow

\* The ids of the SetNode, GetNode and Any Switch nodes of a node list.
IndirectionIds(nodes) ==
    {nodes[i].id : i \in {j \in 1..Len(nodes) : nodes[j].type \in IndirectionTypes}}

\* C8: the graph returned for an editor-form graph, in any wiring, holds no
\* SetNode, GetNode or Any Switch node and no link whose origin or destination
\* is such a node.
C8_NoIndirectionLeft ==
    Resolved /\ EditorInput =>
        LET ind == IndirectionIds(workflow.nodes) IN
            /\ \A i \in 1..Len(resolved.nodes) : resolved.nodes[i].type \notin IndirectionTypes
            /\ \A i \in 1..Len(resolved.links) :
                 resolved.links[i][2] \notin ind /\ resolved.links[i][4] \notin ind

\* The GetNodes (by id) whose name is the name of no SetNode of the graph.
OrphanGetNodes(nodes) ==
    {nodes[i].id : i \in {j \in 1..Len(nodes) :
        /\ nodes[j].type = GETNODE
        /\ \A s \in 1..Len(nodes) :
             nodes[s].type = SETNODE => NodeName(nodes[s]) # NodeName(nodes[j])}}

\* The editor-form graph without node g and without the links that leave or
\* reach g (the link ids held by the inputs of the other nodes are left as they are).
WithoutNode(wf, g) ==
    EditorWorkflow(
        SelectSeq(wf.nodes, LAMBDA n : n.id # g),
        SelectSeq(wf.links, LAMBDA l : l[2] # g /\ l[4] # g))

\* C9: a GetNode whose name matches no SetNode is removed, no link of the
\* output originates at it, and the output is what the graph without that node
\* and its links resolves to.
C9_OrphanDropped ==
    Resolved /\ EditorInput =>
        \A g \in OrphanGetNodes(workflow.nodes) :
            /\ \A i \in 1..Len(resolved.nodes) : resolved.nodes[i].id # g
            /\ \A i \in 1..Len(resolved.links) : resolved.links[i][2] # g
            /\ resolved = resolve_setget_nodes(WithoutNode(workflow, g))

\* C10: a graph in compiled form (no "nodes" list, only entries keyed by node
\* id) is returned unchanged, whatever its keys look like.
C10_CompiledUnchanged ==
    Resolved /\ ~EditorInput => resolved = workflow

\* The SetNodes (by position) of a name whose first input holds a link.
StoresOf(nodes, name) ==
    {i \in 1..Len(nodes) :
        /\ nodes[i].type = SETNODE
        /\ NodeName(nodes[i]) = name
        /\ nodes[i].inputs # <<>>
        /\ nodes[i].inputs[1].link # 0}

\* The <<node, slot>> feeding the last such SetNode.
Feeder(wf, name) ==
    LET S == StoresOf(wf.nodes, name)
        last == CHOOSE i \in S : \A i2 \in S : i2 <= i
        l == CHOOSE j \in 1..Len(wf.links) : wf.links[j][1] = wf.nodes[last].inputs[1].link
    IN  <<wf.links[l][2], wf.links[l][3]>>

\* The links (by position) of a graph that leave a GetNode whose name is the
\* name of a SetNode with a linked input.
LoadLinks(wf) ==
    {i \in 1..Len(wf.links) :
        \E g \in 1..Len(wf.nodes) :
            /\ wf.nodes[g].type = GETNODE
            /\ wf.nodes[g].id = wf.links[i][2]
            /\ StoresOf(wf.nodes, NodeName(wf.nodes[g])) # {}}

NameOfNode(wf, id) == NodeName(wf.nodes[CHOOSE g \in 1..Len(wf.nodes) : wf.nodes[g].id = id])

\* The output holds link l exactly once, leaving from "origin", its other
\* fields kept.
RewrittenTo(l, origin) ==
    LET J == {j \in 1..Len(resolved.links) : resolved.links[j][1] = l[1]}
    IN  /\ Cardinality(J) = 1
        /\ \A j \in J : resolved.links[j] = <<l[1], origin[1], origin[2], l[4], l[5], l[6]>>

BoundInputs(node, links) ==
    {i \in 1..Len(node.inputs) : \E j \in 1..Len(links) : links[j][1] = node.inputs[i].link}

LinkOfId(links, id) == links[CHOOSE j \in 1..Len(links) : links[j][1] = id]

\* The link bound to the first bound input of a node.
FirstBound(node, links) ==
    LET B == BoundInputs(node, links)
    IN  LinkOfId(links, node.inputs[CHOOSE i \in B : \A i2 \in B : i <= i2].link)

\* The Any Switch nodes (by position) of a graph.
Switches(wf) == {s \in 1..Len(wf.nodes) : wf.nodes[s].type = ANYSWITCH}

\* C23: with "left" the links the store/load pass leaves, every link of "left"
\* that leaves a switch with a bound input and does not arrive at a switch is
\* in the output exactly once, leaving from the origin of the link bound to
\* the switch's first bound input; no switch and no link arriving at a switch
\* is in the output.
C23_SwitchToFirstInput ==
    Resolved /\ EditorInput =>
        LET left == NewLinks(workflow.nodes, workflow.links)
            sw_ids == {workflow.nodes[s].id : s \in Switches(workflow)}
        IN  /\ \A n \in 1..Len(resolved.nodes) : resolved.nodes[n].type # ANYSWITCH
            /\ \A j \in 1..Len(resolved.links) : resolved.links[j][4] \notin sw_ids
            /\ \A s \in Switches(workflow) :
                 BoundInputs(workflow.nodes[s], left) # {} =>
                     LET src == FirstBound(workflow.nodes[s], left)
                     IN  \A i \in 1..Len(left) :
                             left[i][2] = workflow.nodes[s].id /\ left[i][4] \notin sw_ids
                             => RewrittenTo(left[i], <<src[2], src[3]>>)

\* Both inputs of switch 6 are bound, the first to the loader's mask output and
\* the second to its image output; the link from the switch to the consumer
\* leaves from the mask output in the result.
C23_Witness ==
    /\ Resolved
    /\ EditorInput
    /\ Len(workflow.links) = 3
    /\ SubSeq(workflow.links[1], 1, 5) = <<2, 1, 1, 6, 0>>
    /\ SubSeq(workflow.links[2], 1, 5) = <<3, 1, 0, 6, 1>>
    /\ SubSeq(workflow.links[3], 1, 5) = <<6, 6, 0, 8, 0>>
    /\ Len(resolved.links) = 1
    /\ SubSeq(resolved.links[1], 1, 5) = <<6, 1, 1, 8, 0>>
    /\ {resolved.nodes[n].id : n \in 1..Len(resolved.nodes)} = {1, 8}

Compiled == wphase = "compiled"

\* C11: a graph in compiled form is returned unchanged by convert_to_api_format,
\* whatever its node-id keys look like, and converting the conversion of an
\* editor-form graph once more changes nothing.
C11_CompileIdempotent ==
    Compiled =>
        /\ ~EditorInput => convert_to_api_format(workflow) = workflow
        /\ convert_to_api_format(api) = api

\* The inputs (by position) of a node that hold a link of the link table and
\* whose name is also the name a positional widget value is stored under.
DoublyGiven(node, links) ==
    {i \in 1..Len(node.inputs) :
        /\ node.inputs[i].link \in LinkIds(links)
        /\ \E w \in 1..Len(node.widgets_values) :
             /\ w <= Len(WIDGET_MAPPINGS(node.type))
             /\ WIDGET_MAPPINGS(node.type)[w] \notin
                    {<<"upload", "hidden">>, <<"control_after_generate", "combo">>}
             /\ WIDGET_MAPPINGS(node.type)[w][1] = node.inputs[i].name}

\* C13: in the compiled node of a node that has both a positional widget value
\* and a link of the link table for the same input name, inputs[name] is the
\* reference [origin node id, origin slot] of that link, not the widget value.
C13_LinkOverridesWidget ==
    Compiled /\ EditorInput =>
        \A n \in 1..Len(resolved.nodes) :
            LET node == resolved.nodes[n] IN
                ToString(node.id) \in DOMAIN api =>
                    \A i \in DoublyGiven(node, resolved.links) :
                        LET link == LinkInfo(resolved.links, node.inputs[i].link)
                        IN  <<ToString(link[2]), link[3]>>
                                = api[ToString(node.id)]["inputs"][node.inputs[i].name]

\* The sampler's "steps" and the writer's "filename_prefix" both have a widget
\* value and a link, and both nodes were compiled.
C13_Witness ==
    /\ Compiled
    /\ EditorInput
    /\ {"3", "4"} \subseteq DOMAIN api
    /\ DoublyGiven(resolved.nodes[3], resolved.links) # {}
    /\ DoublyGiven(resolved.nodes[4], resolved.links) # {}
    /\ <<"1", 1>> = api["4"]["inputs"]["filename_prefix"]

\* The nodes (by position) of the converted graph that are neither decoration
\* nor bypassed.
Executable(nodes) ==
    {n \in 1..Len(nodes) :
        /\ nodes[n].type \notin
               {"Note", "Label (rgthree)", "Fast Groups Bypasser (rgthree)", "Reroute"}
        /\ nodes[n].mode # 4}

\* C25: the keys of the compiled graph are the string ids of exactly the nodes
\* that are neither of a decoration kind nor bypassed.
C25_EmitsExecutableNodes ==
    Compiled /\ EditorInput =>
        DOMAIN api = {ToString(resolved.nodes[n].id) : n \in Executable(resolved.nodes)}

\* The sampler is bypassed: the loader and the writer are compiled, the note
\* and the sampler are not.
C25_Witness ==
    /\ Compiled
    /\ EditorInput
    /\ resolved.nodes[3].mode = 4
    /\ resolved.nodes[1].mode = 0
    /\ resolved.nodes[4].mode = 0
    /\ DOMAIN api = {"1", "4"}

\* An input of the node of that name holds a link of the link table.
LinkedName(node, links, name) ==
    \E i \in 1..Len(node.inputs) :
        node.inputs[i].name = name /\ node.inputs[i].link \in LinkIds(links)

\* Position i of a mapping list names a widget that is written to the result.
Emits(names, i) == names[i][2] # "hidden" /\ names[i][1] # "control_after_generate"

\* The compiled inputs of the node at position n.
InputsOf(n) == api[ToString(resolved.nodes[n].id)]["inputs"]

\* C26: in a compiled node the i-th positional value is stored under the i-th
\* name of the mapping list of its kind; a hidden or control-only position
\* takes its value out of the list and stores nothing, so that the later
\* values stay with their names (names set by a link aside).
C26_PositionalWidgets ==
    Compiled /\ EditorInput =>
        \A n \in Executable(resolved.nodes) :
            LET node == resolved.nodes[n]
                names == WIDGET_MAPPINGS(node.type)
            IN  \A i \in 1..Len(names) :
                    i <= Len(node.widgets_values) =>
                        \/ LinkedName(node, resolved.links, names[i][1])
                        \/ IF Emits(names, i)
                           THEN /\ names[i][1] \in DOMAIN InputsOf(n)
                                /\ InputsOf(n)[names[i][1]] = node.widgets_values[i]
                           ELSE names[i][1] \notin DOMAIN InputsOf(n)

\* The sampler with its seven values and no link is compiled to the six named
\* inputs of the example.
C26_Witness ==
    /\ Compiled
    /\ EditorInput
    /\ resolved.links = <<>>
    /\ resolved.nodes[3].widgets_values =
           <<"42", "fixed", "8", "1.0", "euler", "normal", "0.7">>
    /\ "3" \in DOMAIN api
    /\ api["3"]["inputs"] = [seed |-> "42", steps |-> "8", cfg |-> "1.0",
                             sampler_name |-> "euler", scheduler |-> "normal",
                             denoise |-> "0.7"]

\* C27: values beyond the mapped names are dropped and overwrite nothing (every
\* compiled input is set by a link or holds the value at the position of its
\* name); with fewer values than names, exactly the names beyond the values
\* are absent, unless a link sets them.
C27_ExtraAndMissingValues ==
    Compiled /\ EditorInput =>
        \A n \in Executable(resolved.nodes) :
            LET node == resolved.nodes[n]
                names == WIDGET_MAPPINGS(node.type)
                values == node.widgets_values
            IN  /\ \A name \in DOMAIN InputsOf(n) :
                     \/ LinkedName(node, resolved.links, name)
                     \/ \E i \in 1..Len(names) :
                          /\ i <= Len(values)
                          /\ names[i][1] = name
                          /\ InputsOf(n)[name] = values[i]
                /\ \A i \in 1..Len(names) :
                     ~LinkedName(node, resolved.links, names[i][1]) =>
                         (names[i][1] \in DOMAIN InputsOf(n)
                              <=> i <= Len(values) /\ Emits(names, i))

\* The sampler has three values for its seven names and the writer two values
\* for its one name; neither has a link.
C27_Witness ==
    /\ Compiled
    /\ EditorInput
    /\ resolved.links = <<>>
    /\ resolved.nodes[3].widgets_values = <<"42", "fixed", "8">>
    /\ resolved.nodes[4].widgets_values = <<"ComfyUI", "extra">>
    /\ {"3", "4"} \subseteq DOMAIN api
    /\ api["3"]["inputs"] = [seed |-> "42", steps |-> "8"]
    /\ api["4"]["inputs"] = [filename_prefix |-> "ComfyUI"]

(***************************************************************************)
(* get_node_info: properties                                               *)
(***************************************************************************)
\* C28: a request is sent to the introspection endpoint only for a node whose
\* kind has no entry in the static table, under its editor name or under its
\* aliased name.
C28_StaticKindsNotIntrospected ==
    last_call.sent =>
        last_call.node_type \notin StaticKinds /\ last_call.kind \notin StaticKinds

\* The conversion loop has made a get_node_info call in this step.
Calls == cnode' = cnode + 1 /\ last_call' # NoCall

\* C29: once a request for a node kind was answered, every later
\* get_node_info call for the kind, in this and in any later conversion,
\* sends no request and returns the description that answer held.
C29_CachedForLife ==
    [][Calls /\ last_call'.kind \in DOMAIN answered
         => /\ ~last_call'.sent
            /\ last_call'.returned = <<answered[last_call'.kind]>>]_vars

\* In the second conversion the scaler is compiled from the description the
\* first conversion obtained, without a request.
C29_Witness ==
    /\ compiles = 2
    /\ last_call = [node_type |-> "ImageScaleBy", kind |-> "ImageScaleBy", sent |-> FALSE,
                    returned |-> << << <<"image", "IMAGE">>, <<"upscale_method", "LIST">>,
                                       <<"scale_by", "FLOAT">> >> >>]
    /\ "5" \in DOMAIN api
    /\ api["5"]["inputs"] = [upscale_method |-> "lanczos", scale_by |-> "2.0"]

(***************************************************************************)
(* ComfyUIExecutor.execute: properties                                     *)
(***************************************************************************)
\* wait_for_result is running: the job is watched over the channel or polled.
Monitoring == jpc \in {"connect", "recv", "poll", "fetch"}

\* wait_for_result has returned in the pass.
WaitOver == jpc \in {"returned", "done"} /\ waits = 1

\* C14: once the channel has delivered an execution_error message, monitoring
\* of the job is over: the job is neither watched nor polled any more, and no
\* artifact is returned.
C14_ErrorEndsMonitoring ==
    "execution_error" \in seen => ~Monitoring /\ "polled" \notin seen /\ jret = None

\* C15: the values handed to the caller's progress callback never decrease
\* within a job.
C15_ProgressMonotone ==
    \A i \in 1..(Len(reported) - 1) : reported[i] <= reported[i + 1]

\* C16: in a pass the submission is made at most once; wait_for_result is
\* entered at most once and only after a submission that returned a job id; a
\* submission that returned none ends the job there, without monitoring and
\* without an artifact.
C16_SubmitOnceThenMonitor ==
    /\ submits <= 1
    /\ waits <= 1
    /\ waits = 1 => submits = 1 /\ prompt_id # None
    /\ Monitoring => waits = 1
    /\ submits = 1 /\ prompt_id = None =>
           jpc = "done" /\ waits = 0 /\ ws = "none" /\ jret = None
                        /\ "fetched" \notin seen /\ "polled" \notin seen

\* A submission has failed: the job is over after its only attempt.
C16_Witness ==
    submits = 1 /\ prompt_id = None /\ jpc = "done" /\ reported = <<5, 10, 15, 20>>

\* C17: when monitoring ends after the channel failed (no connection, or the
\* connection was lost), the job was polled by _poll_for_result.
C17_FallbackToPolling ==
    WaitOver /\ seen \cap {"connect_failed", "lost"} # {} => "polled" \in seen

\* C18: when the deadline elapsed before the completion sentinel (channel) or
\* a result (polling) was seen, wait_for_result returns no artifact.
C18_DeadlineNoArtifact ==
    WaitOver /\ "deadline" \in seen => jret = None

\* C19: after the completion sentinel the result of the prompt is fetched from
\* the history, and whenever the stored entry has status "error" no artifact
\* is returned, whether or not the channel reported an error.
C19_ErrorStatusFails ==
    /\ WaitOver /\ "sentinel" \in seen => "fetched" \in seen
    /\ prompt_id \in DOMAIN history /\ history[prompt_id].status.status_str = "error" =>
           jret = None

\* The sentinel was seen, no error was reported on the channel, the stored
\* entry has status "error" and holds an image, and nothing was returned.
C19_Witness ==
    /\ jpc = "done"
    /\ "sentinel" \in seen
    /\ "fetched" \in seen
    /\ "execution_error" \notin seen
    /\ prompt_id \in DOMAIN history
    /\ history[prompt_id] = [status |-> [status_str |-> "error"], outputs |-> ImageOutput]
    /\ jret = None

\* The message is an "executing" message without a node for the prompt waited for.
Completion(m) == m.type = "executing" /\ m.node = None /\ m.prompt_id = prompt_id

\* C30: the receive loop is left for the completion of the job only on an
\* "executing" message that has no node and carries the prompt id waited for;
\* an "executing" message with a node or with another prompt id leaves the
\* monitoring of the job as it was.
C30_SentinelOnly ==
    [][/\ "sentinel" \in seen' /\ "sentinel" \notin seen
            => received' = received + 1 /\ Completion(msg')
       /\ received' = received + 1 /\ msg'.type = "executing" /\ ~Completion(msg')
            => /\ jpc' = jpc
               /\ ws' = ws
               /\ seen' = seen
               /\ jret' = jret]_vars

\* In the second pass, which waits for prompt p2, an "executing" message without
\* a node arrives for prompt p1; the job is still in the receive loop.
C30_Witness ==
    /\ jpass = 2
    /\ prompt_id = "p2"
    /\ msg = [type |-> "executing", node |-> None, prompt_id |-> "p1"]
    /\ jpc = "recv"
    /\ ws = "open"
    /\ seen = {}

(***************************************************************************)
(* Preview stream: properties                                              *)
(***************************************************************************)
\* The request's job has ended, in success or in failure.
JobTerminal == hpc \in {"returned", "failed"}

\* C20: a preview stream that is connected when the job of a preview-producing
\* endpoint has ended leaves its loop only by emitting the {done: true} marker.
C20_StreamEndsWithDone ==
    [][JobTerminal /\ endpoint \in PreviewEndpoints /\ spc = "loop" /\ spc' # "loop"
         => sse' # <<>> /\ sse'[Len(sse')] = [done |-> TRUE]]_vars

\* The step numbers of the previews the generator yielded, in the order of
\* delivery, and of the previews waiting in the request's queue.
DeliveredSteps ==
    LET shown == SelectSeq(sse, LAMBDA ev : "image" \in DOMAIN ev)
    IN  [i \in 1..Len(shown) |-> shown[i].step]

StepsIn(queue) == [i \in 1..Len(queue) |-> queue[i].step]

QueuedSteps ==
    IF request_id \in DOMAIN preview_store
    THEN StepsIn(queues[preview_store[request_id]])
    ELSE <<>>

\* C21: the previews of a job reach the consumer of its queue in the order
\* send_preview enqueued them, none of them twice: the previews delivered were
\* sent in the order of their delivery, the previews in a queue wait in the
\* order they were sent, and those in the consumer's queue were sent after all
\* that were delivered.
C21_FifoNoDuplicate ==
    /\ \A i, j \in 1..Len(DeliveredSteps) : i < j => DeliveredSteps[i] < DeliveredSteps[j]
    /\ \A q \in 1..Len(queues) :
         \A i, j \in 1..Len(queues[q]) : i < j => queues[q][i].step < queues[q][j].step
    /\ squeue # 0 =>
         \A i \in 1..Len(queues[squeue]), j \in 1..Len(DeliveredSteps) :
             DeliveredSteps[j] < queues[squeue][i].step

\* Two previews were sent and both were delivered.
C21_Witness ==
    /\ sent = 2
    /\ DeliveredSteps = <<1, 2>>

\* The generator yields the done marker in this step.
EmitsDone ==
    /\ Len(sse') = Len(sse) + 1
    /\ sse'[Len(sse')] = [done |-> TRUE]

\* The request's queue is removed from preview_store in this step.
TearsDown ==
    /\ request_id \in DOMAIN preview_store
    /\ request_id \notin DOMAIN preview_store'

\* C22: once the job has ended, the done marker is emitted and the queue is
\* torn down only when no preview is left in the queue: what was queued at the
\* job's end has been delivered before.
C22_DrainedBeforeEnd ==
    [][JobTerminal /\ (EmitsDone \/ TearsDown) => QueuedSteps = <<>>]_vars

(***************************************************************************)
(* ModelManager: properties                                                *)
(***************************************************************************)
InCall(t) == pc[t] \notin {"idle", "using"}

Count(ev, kind) == Cardinality({i \in 1..Len(ev) : ev[i][1] = kind})

\* The call of thread t began with exactly the key k1 resident, k1 not the key asked for.
OtherResident(t) ==
    /\ op[t] = "get_model"
    /\ Len(pre[t].loaded) = 1
    /\ pre[t].loaded[1].key # model_key[t]

\* C1: with calls made one after the other, loaded_models holds at most one
\* engine when a get_model call has returned or raised.
C1_AtMostOneAfterCall ==
    \A t \in Threads :
        pc[t] = "done" /\ op[t] = "get_model" => Len(loaded_models) <= 1

C1_Witness ==
    \E t \in Threads :
        /\ pc[t] = "done"
        /\ OtherResident(t)
        /\ IsEngine(result[t])
        /\ KeyList(loaded_models) = <<model_key[t]>>

\* C2: get_model(k) with k already resident returns the engine stored under k,
\* runs neither unload_all nor an engine constructor, and leaves loaded_models
\* as it was.
C2_ResidentHit ==
    \A t \in Threads :
        pc[t] = "done" /\ op[t] = "get_model" /\ Has(pre[t].loaded, model_key[t]) =>
            /\ result[t] = Lookup(pre[t].loaded, model_key[t])
            /\ events[t] = <<>>
            /\ loaded_models = pre[t].loaded

C2_Witness ==
    \E t \in Threads :
        /\ pc[t] = "done"
        /\ op[t] = "get_model"
        /\ Has(pre[t].loaded, model_key[t])
        /\ IsEngine(result[t])

\* C3: get_model(k2) with another key k1 resident tears k1 down exactly once,
\* before any construction of k2 begins, and k1 and k2 are never both in
\* loaded_models inside the call; a call that returns an engine has done exactly
\* one teardown of k1 followed by one construction of k2; a following
\* get_model(k2) does no teardown and no construction.
C3_SwitchOrder ==
    \A t \in Threads :
        /\ InCall(t) /\ OtherResident(t) =>
            LET k1 == pre[t].loaded[1].key
                ev == events[t]
            IN  /\ ~(Has(loaded_models, k1) /\ Has(loaded_models, model_key[t]))
                /\ Count(ev, "teardown") <= 1
                /\ Count(ev, "construct") <= 1
                /\ \A i \in 1..Len(ev) :
                     ev[i][1] = "construct" =>
                        \E j \in 1..(i - 1) : ev[j] = <<"teardown", k1>>
                /\ pc[t] \in {"gm_load", "gm_store", "gm_setactive", "gm_except", "done"} =>
                     /\ Count(ev, "teardown") = 1
                     /\ ~Has(loaded_models, k1)
                /\ pc[t] = "done" /\ IsEngine(result[t]) =>
                     ev = << <<"unload_all">>, <<"teardown", k1>>, <<"construct", model_key[t]>> >>
        /\ pc[t] = "done" /\ op[t] = "get_model" /\ Has(pre[t].loaded, model_key[t]) =>
            events[t] = <<>>

\* sdxl, then esrgan, then esrgan again: the third call is finished.
C3_Witness ==
    \E t \in Threads, u \in Threads :
        /\ pc[t] = "done" /\ op[t] = "get_model" /\ model_key[t] = "esrgan"
        /\ KeyList(pre[t].loaded) = <<"esrgan">>
        /\ events[t] = <<>>
        /\ u # t /\ op[u] = "get_model" /\ model_key[u] = "esrgan"
        /\ KeyList(pre[u].loaded) = <<"sdxl">>
        /\ events[u] = << <<"unload_all">>, <<"teardown", "sdxl">>, <<"construct", "esrgan">> >>

\* C4: a get_model call that fails (model file missing, constructor raising,
\* unknown key) raises that same failure to its caller and leaves loaded_models
\* empty and active_model_key None, whatever was resident before.
C4_FailureClean ==
    \A t \in Threads :
        pc[t] = "done" /\ op[t] = "get_model" /\ (err[t] # None \/ IsFailure(result[t])) =>
            /\ result[t] = err[t]
            /\ loaded_models = <<>>
            /\ active_model_key = None

\* A call with another key resident has just raised the constructor's error;
\* an earlier call raised for a missing model file or an unknown key.
C4_Witness ==
    \E t \in Threads, u \in Threads :
        /\ pc[t] = "done"
        /\ OtherResident(t)
        /\ result[t] = "EngineError"
        /\ u # t /\ pc[u] = "idle"
        /\ result[u] \in {"FileNotFoundError", "ValueError"}

\* C5: under every interleaving of request threads calling get_model,
\* loaded_models holds at most one engine once the calls have returned.
C5_ThreadsAtMostOne ==
    (\A t \in Threads : ~InCall(t) \/ pc[t] = "done") => Len(loaded_models) <= 1

\* C6: two jobs asking for different engines are serialized: while a job is
\* using the engine it acquired, a job for a different engine has not evicted
\* that engine from loaded_models, has not constructed its own, and is not
\* using its own.
C6_JobsSerialized ==
    \A t \in Threads, u \in Threads :
        /\ pc[t] = "using"
        /\ u # t /\ op[u] = "get_model" /\ model_key[u] # model_key[t]
        => /\ Has(loaded_models, model_key[t])
           /\ Lookup(loaded_models, model_key[t]) = result[t]
           /\ pc[u] \notin {"gm_store", "gm_setactive", "using"}

C35_ActiveAgrees ==
    (\A t \in Threads : pc[t] \in {"idle", "done"}) =>
        /\ active_model_key = None <=> loaded_models = <<>>
        /\ loaded_models # <<>> => KeyList(loaded_models) = <<active_model_key>>

\* A call for esrgan with sdxl resident has returned its engine; an earlier
\* call ended in a failure.
C35_Witness ==
    \E t \in Threads, u \in Threads :
        /\ pc[t] = "done"
        /\ OtherResident(t)
        /\ IsEngine(result[t])
        /\ active_model_key = model_key[t]
        /\ KeyList(loaded_models) = <<model_key[t]>>
        /\ u # t /\ pc[u] = "idle" /\ IsFailure(result[u])

\* The nodes of a list that are no SetNode, GetNode or Any Switch, in order.
PlainNodes(nodes) == SelectSeq(nodes, LAMBDA n : n.type \notin IndirectionTypes)

\* The links of a graph with neither end on a SetNode, GetNode or Any Switch.
PlainLinks(wf) ==
    SelectSeq(wf.links, LAMBDA l :
        l[2] \notin IndirectionIds(wf.nodes) /\ l[4] \notin IndirectionIds(wf.nodes))

\* C37: of an editor-form graph, the nodes that are no SetNode, GetNode or Any
\* Switch are in the output unchanged and in their order; the links with
\* neither end on such a node are in the output unchanged and in their order;
\* and every link of the output has the id, destination node, destination
\* slot, data type and further fields of the input link of its id.
C37_OnlyOriginsChange ==
    Resolved /\ EditorInput =>
        LET plain == PlainLinks(workflow)
            ids == {plain[i][1] : i \in 1..Len(plain)}
        IN  /\ PlainNodes(resolved.nodes) = PlainNodes(workflow.nodes)
            /\ SelectSeq(resolved.links, LAMBDA l : l[1] \in ids) = plain
            /\ \A i \in 1..Len(resolved.links) :
                 LET r == resolved.links[i]
                 IN  /\ \E j \in 1..Len(workflow.links) : workflow.links[j][1] = r[1]
                     /\ LET l == LinkOfId(workflow.links, r[1])
                        IN  /\ r[4] = l[4] /\ r[5] = l[5] /\ r[6] = l[6]
                            /\ Len(r) = Len(l)
                            /\ SubSeq(r, 7, Len(r)) = SubSeq(l, 7, Len(l))

\* The loader feeds SetNode "x" and the consumer's first input, and a GetNode
\* "x" feeds the consumer's second input: the direct link is kept and the
\* other is rewritten, still arriving at the second input.
C37_Witness ==
    /\ Resolved
    /\ EditorInput
    /\ \E i \in 1..Len(workflow.links), j \in 1..Len(resolved.links) :
         /\ workflow.links[i][1] = resolved.links[j][1]
         /\ workflow.links[i][2] \in IndirectionIds(workflow.nodes)
         /\ resolved.links[j][2] \notin IndirectionIds(workflow.nodes)
         /\ resolved.links[j][5] = 1
    /\ PlainLinks(workflow) # <<>>
    /\ Len(resolved.nodes) < Len(workflow.nodes)

\* C36: every link reference [node id, slot] among the compiled inputs of a
\* graph that was resolved and converted names a key of the compiled graph.
C36_LinkReferencesCompiled ==
    Compiled /\ EditorInput =>
        \A n \in Executable(resolved.nodes) :
            \A i \in 1..Len(resolved.nodes[n].inputs) :
                resolved.nodes[n].inputs[i].link \in LinkIds(resolved.links) =>
                    InputsOf(n)[resolved.nodes[n].inputs[i].name][1] \in DOMAIN api

(***************************************************************************)
(* wait_for_result: progress, previews and time                            *)
(***************************************************************************)
\* The step is the receipt of a "progress" message.
ProgressReceived == received' = received + 1 /\ msg'.type = "progress"

\* C31: the percentage handed to the progress callback for a "progress"
\* message with max > 0 is the integer quotient of 100 * value by max and lies
\* in 0..100; a message with max <= 0 hands over nothing.
C31_PercentageIsFloor ==
    [][ProgressReceived =>
          IF msg'.max > 0
          THEN /\ jprogress' = (100 * msg'.value) \div msg'.max
               /\ jprogress' \in 0..100
               /\ Len(reported') = Len(reported) + 1
          ELSE reported' = reported /\ jprogress' = jprogress]_vars

\* The step is a round of _poll_for_result that found no result: it hands an
\* estimate to the progress callback and sleeps.
PollReported == jpc = "poll" /\ jpc' = "poll" /\ clock' > clock

C40_FallbackKeepsDeadline ==
    jpc \in {"connect", "recv", "poll", "fetch", "returned"} =>
        \E took \in FetchTicks : clock <= Deadline + took + 1

\* A tick went by in streaming; the execution_error message sent the job to
\* polling, whose one round (request and sleep) ended a tick after the deadline.
C40_Witness ==
    /\ jpc = "poll"
    /\ "execution_error" \in seen
    /\ "estimated" \in seen
    /\ received = 1
    /\ Len(reported) = 6
    /\ clock = Deadline + 1

\* C34: the streaming monitor hands a preview to preview_callback only at
\* every fourth step.
C34_PreviewEveryFourthStep ==
    previewed # -1 => previewed % 4 = 0

\* The step is the receipt of a "progress" or "execution_error" message that
\* carries the prompt id of another job.
OtherJobReceived ==
    /\ received' = received + 1
    /\ msg'.type \in {"progress", "execution_error"}
    /\ msg'.prompt_id # prompt_id

\* C39: a "progress" or "execution_error" message of another job changes
\* neither the progress reported for the job monitored nor where its
\* monitoring stands nor what it returns.
C39_OtherJobsIgnored ==
    [][OtherJobReceived =>
          /\ reported' = reported
          /\ jprogress' = jprogress
          /\ jpc' = jpc
          /\ ws' = ws
          /\ jret' = jret]_vars

\* C33: a wait_for_result that was entered returns, whatever the channel
\* delivers and also when it delivers nothing.
C33_WaitTerminates == Monitoring ~> jpc = "returned"

\* The channel was opened and delivered nothing until the deadline; the
\* receive loop was left and wait_for_result returned.
C33_Witness ==
    /\ jpc = "returned"
    /\ ws = "closed"
    /\ received = 0
    /\ seen = {"deadline", "fetched"}
    /\ clock >= Deadline

(***************************************************************************)
(* Preview stream: the Queue object of a request                           *)
(***************************************************************************)
\* C38: while the stream of the request is connected, no preview of the
\* request lies in a Queue object other than the one the generator reads.
C38_OneQueueObject ==
    spc = "loop" =>
        \A q \in 1..Len(queues) : q # squeue => queues[q] = <<>>

====
